---- MODULE Spec2Model ----
(***************************************************************************)
(* Frame pacing of glpaper-rs: the per-output OutputSurface (draw /        *)
(* render / wait / set_fft / reset) of src/renderer/output_surface.rs and  *)
(* the BackgroundLayer event handlers (configure_output, configure, frame, *)
(* draw, set_fft, reset, output_destroyed) of                              *)
(* src/handlers/background_layer.rs, the dispatch loop of main() with the  *)
(* Wgpu state of src/main.rs, and the audio channel that feeds set_fft.    *)
(*                                                                         *)
(* Time is counted in units of 0.1 s, so that set_fft(med_fv, _), which    *)
(* moves start_time back by med_fv / 10 seconds, moves it by med_fv units. *)
(***************************************************************************)
EXTENDS Integers, Sequences, FiniteSets, TLC

\* Bounds of the model.
MaxFrames == 3
MaxFired == 2
MaxTime == 2
MaxShift == 2
MaxChannel == 2

\* Inputs the environment can deliver.
Outputs == {"DP-1", "DP-2"}
Sizes == {<<1920, 1080>>, <<1280, 720>>}
FftValues == {0, 1}

VARIABLES
    backgrounds,  \* BackgroundLayer.backgrounds : Vec<Background>
    wl,           \* compositor side of every created wl_surface, by surface id
    now,          \* the monotonic clock read by Instant::now() / elapsed()
    ops,          \* requests issued by the handler (or call) that ran last;
                  \* empty after a step of the environment
    exit,         \* BackgroundLayer.exit, Wgpu.exit
    crashed,      \* the process has panicked (unwrap on Err)
    destroyed,    \* outputs the compositor has removed
    channel,      \* values sent by the audio thread and not yet received
    wgpu,         \* main() of main.rs: Wgpu.output_surfaces, the position in
                  \* main and the objects dropped so far
    shader        \* the inputs of the fragment shader that is being loaded
                  \* and what the load returned

vars == <<backgrounds, wl, now, ops, exit, crashed, destroyed, channel, wgpu,
          shader>>

\* Option<T>
None == <<>>
Some(x) == <<x>>
IsSome(o) == o # <<>>
Unwrap(o) == o[1]

Max(a, b) == IF a >= b THEN a ELSE b

\* One request or call, as it appears in ops.
Ev(op, s, x, y) == [op |-> op, s |-> s, x |-> x, y |-> y]

\* What a call returned to its caller.
Ret(ok, sid) == Ev(IF ok THEN "ok" ELSE "err", sid, 0, 0)

-----------------------------------------------------------------------------
(* wl_surface, as the compositor sees it *)

NewWlSurface == [pending |-> 0, callbacks |-> 0, events |-> 0, fired |-> 0]

\* wl_surface.frame: the callback request is pending until the next commit.
FrameRequest(layer) == [layer EXCEPT !.pending = @ + 1]

\* wl_surface.commit: applies the pending state.
Commit(layer) == [layer EXCEPT !.callbacks = @ + layer.pending, !.pending = 0]

\* Frame callbacks requested and not yet fired.
Outstanding(layer) == layer.pending + layer.callbacks

-----------------------------------------------------------------------------
(* OutputSurface *)

NewOutputSurface(width, height, t) ==
    [ start_time       |-> t,
      submitted_frame  |-> None,
      i_global_time    |-> 0,
      i_time           |-> 0,
      i_resolution     |-> <<width, height, 0>>,
      i_mouse0         |-> 0,
      queue_submitted  |-> 0,   \* submissions made on queue
      device_done      |-> 0,   \* highest submission index the GPU completed
      surface_acquired |-> 0,   \* swapchain textures acquired so far
      surface_held     |-> 0,   \* swapchain textures acquired and not presented
      surface_presented |-> 0 ] \* swapchain textures presented

\* device.poll(Maintain::Poll) returns at once; WaitForSubmissionIndex(i)
\* returns when the GPU has completed submission i.
DevicePoll(os, wait_for) ==
    IF wait_for = 0 THEN os
    ELSE [os EXCEPT !.device_done = Max(@, wait_for)]

\* set_fft that keeps the larger of the stored and the incoming value.
setFftKeepsMax(os, med_fv) ==
    [os EXCEPT !.i_mouse0 = Max(@, med_fv), !.start_time = @ - med_fv]

\* The blocking poll as a request: y = 1 when the call had to block.
WaitEv(os, sid, i) == Ev("wait_for", sid, i, IF os.device_done < i THEN 1 ELSE 0)

\* set_fft that moves start_time later.
setFftMovesLater(os, med_fv) ==
    [os EXCEPT !.i_mouse0 = med_fv, !.start_time = @ + med_fv]

set_fft(os, med_fv) ==
    [os EXCEPT !.i_mouse0 = med_fv, !.start_time = @ - med_fv]

load_shader(os) == os

\* reset that clears the energy and restarts the shader clock.
resetClearsUniforms(os) == [os EXCEPT !.i_mouse0 = 0, !.start_time = 0]

reset(os) == os

\* draw without the early return on a held frame.
DrawNoGuard(os, sid, t, acquired) ==
    LET ev0 == <<Ev("draw", sid, 0, 0), Ev("poll", sid, 0, 0)>>
        time == t - os.start_time
        os1 == [os EXCEPT !.i_time = time, !.i_global_time = time]
        tex == os.surface_acquired + 1
        i == os.queue_submitted + 1
    IN  IF ~acquired
        THEN [os |-> os1, ok |-> FALSE,
              ev |-> ev0 \o <<Ev("acquire_err", sid, 0, 0)>>]
        ELSE [os |-> [os1 EXCEPT !.surface_acquired = tex,
                                 !.surface_held = @ + 1,
                                 !.queue_submitted = i,
                                 !.submitted_frame = Some(<<tex, i>>)],
              ok |-> TRUE,
              ev |-> ev0 \o <<Ev("acquire", sid, tex, os.surface_held),
                              Ev("stage", sid, time, os.i_mouse0),
                              Ev("submit", sid, i, 0),
                              Ev("poll", sid, 0, 0)>>]

\* draw with the time uniforms written before the early return.
DrawTimeBeforeGuard(os, sid, t, acquired) ==
    LET ev0 == <<Ev("draw", sid, 0, 0), Ev("poll", sid, 0, 0)>>
        time == t - os.start_time
        os1 == [os EXCEPT !.i_time = time, !.i_global_time = time]
        tex == os.surface_acquired + 1
        i == os.queue_submitted + 1
    IN  IF IsSome(os.submitted_frame)
        THEN [os |-> os1, ok |-> TRUE, ev |-> ev0]
        ELSE IF ~acquired
        THEN [os |-> os1, ok |-> FALSE,
              ev |-> ev0 \o <<Ev("acquire_err", sid, 0, 0)>>]
        ELSE [os |-> [os1 EXCEPT !.surface_acquired = tex,
                                 !.surface_held = @ + 1,
                                 !.queue_submitted = i,
                                 !.submitted_frame = Some(<<tex, i>>)],
              ok |-> TRUE,
              ev |-> ev0 \o <<Ev("acquire", sid, tex, os.surface_held),
                              Ev("stage", sid, time, os.i_mouse0),
                              Ev("submit", sid, i, 0),
                              Ev("poll", sid, 0, 0)>>]

\* draw that asks for the texture again when the acquisition failed.
DrawRetries(os, sid, t, acquired) ==
    LET ev0 == <<Ev("draw", sid, 0, 0), Ev("poll", sid, 0, 0)>>
        os0 == DevicePoll(os, 0)
    IN  IF IsSome(os0.submitted_frame)
        THEN [os |-> os0, ok |-> TRUE, ev |-> ev0]
        ELSE LET time == t - os0.start_time
                 os1 == [os0 EXCEPT !.i_time = time, !.i_global_time = time]
                 tex == os0.surface_acquired + 1
                 i == os0.queue_submitted + 1
                 ev1 == IF acquired THEN ev0
                        ELSE ev0 \o <<Ev("acquire_err", sid, 0, 0)>>
             IN  [os |-> DevicePoll(
                            [os1 EXCEPT !.surface_acquired = tex,
                                        !.surface_held = @ + 1,
                                        !.queue_submitted = i,
                                        !.submitted_frame = Some(<<tex, i>>)],
                            0),
                  ok |-> TRUE,
                  ev |-> ev1 \o <<Ev("acquire", sid, tex, os0.surface_held),
                                  Ev("stage", sid, time, os0.i_mouse0),
                                  Ev("submit", sid, i, 0),
                                  Ev("poll", sid, 0, 0)>>]

\* OutputSurface::draw.  acquired: whether get_current_texture succeeds.
\* draw that waits for its own submission before it returns.
DrawWaits(os, sid, t, acquired) ==
    LET ev0 == <<Ev("draw", sid, 0, 0), Ev("poll", sid, 0, 0)>>
        os0 == DevicePoll(os, 0)
    IN  IF IsSome(os0.submitted_frame)
        THEN [os |-> os0, ok |-> TRUE, ev |-> ev0]
        ELSE LET time == t - os0.start_time
                 os1 == [os0 EXCEPT !.i_time = time, !.i_global_time = time]
                 tex == os0.surface_acquired + 1
                 i == os0.queue_submitted + 1
             IN  IF ~acquired
                 THEN [os |-> os1, ok |-> FALSE,
                       ev |-> ev0 \o <<Ev("acquire_err", sid, 0, 0)>>]
                 ELSE [os |-> DevicePoll(
                                 [os1 EXCEPT !.surface_acquired = tex,
                                             !.surface_held = @ + 1,
                                             !.queue_submitted = i,
                                             !.submitted_frame = Some(<<tex, i>>)],
                                 i),
                       ok |-> TRUE,
                       ev |-> ev0 \o <<Ev("acquire", sid, tex, os0.surface_held),
                                       Ev("stage", sid, time, os0.i_mouse0),
                                       Ev("submit", sid, i, 0),
                                       WaitEv(os1, sid, i)>>]

Draw(os, sid, t, acquired) ==
    LET ev0 == <<Ev("draw", sid, 0, 0), Ev("poll", sid, 0, 0)>>
        os0 == DevicePoll(os, 0)
    IN  IF IsSome(os0.submitted_frame)
        THEN [os |-> os0, ok |-> TRUE, ev |-> ev0]
        ELSE LET time == t - os0.start_time
                 os1 == [os0 EXCEPT !.i_time = time, !.i_global_time = time]
                 tex == os0.surface_acquired + 1
                 i == os0.queue_submitted + 1
             IN  IF ~acquired
                 THEN [os |-> os1, ok |-> FALSE,
                       ev |-> ev0 \o <<Ev("acquire_err", sid, 0, 0)>>]
                 ELSE [os |-> DevicePoll(
                                 [os1 EXCEPT !.surface_acquired = tex,
                                             !.surface_held = @ + 1,
                                             !.queue_submitted = i,
                                             !.submitted_frame = Some(<<tex, i>>)],
                                 0),
                       ok |-> TRUE,
                       ev |-> ev0 \o <<Ev("acquire", sid, tex, os0.surface_held),
                                       Ev("stage", sid, time, os0.i_mouse0),
                                       Ev("submit", sid, i, 0),
                                       Ev("poll", sid, 0, 0)>>]

\* wait that takes the frame out of the slot once the GPU is done.
WaitTakesFrame(os, sid) ==
    IF IsSome(os.submitted_frame)
    THEN [os |-> [DevicePoll(os, Unwrap(os.submitted_frame)[2]) EXCEPT
                     !.submitted_frame = None],
          ok |-> TRUE,
          ev |-> <<Ev("wait", sid, 0, 0),
                   WaitEv(os, sid, Unwrap(os.submitted_frame)[2])>>]
    ELSE [os |-> os, ok |-> TRUE, ev |-> <<Ev("wait", sid, 0, 0)>>]

\* OutputSurface::wait
Wait(os, sid) ==
    IF IsSome(os.submitted_frame)
    THEN [os |-> DevicePoll(os, Unwrap(os.submitted_frame)[2]), ok |-> TRUE,
          ev |-> <<Ev("wait", sid, 0, 0),
                   WaitEv(os, sid, Unwrap(os.submitted_frame)[2])>>]
    ELSE [os |-> os, ok |-> TRUE, ev |-> <<Ev("wait", sid, 0, 0)>>]

\* SurfaceTexture::present of the frame <<texture, submission index>>; the
\* request records whether the GPU had completed the submission.
Present(os, frame) ==
    [os EXCEPT !.surface_held = @ - 1, !.surface_presented = @ + 1]

PresentEv(os, sid, frame) ==
    Ev("present", sid, frame[1], IF os.device_done >= frame[2] THEN 1 ELSE 0)

\* render that presents without waiting for the submission.
RenderNoWait(os, layer, sid) ==
    IF IsSome(os.submitted_frame)
    THEN LET frame == Unwrap(os.submitted_frame)
             os1 == [os EXCEPT !.submitted_frame = None]
         IN  [os |-> Present(os1, frame), layer |-> Commit(layer), ok |-> TRUE,
              ev |-> <<Ev("render", sid, 0, 0),
                       PresentEv(os1, sid, frame),
                       Ev("commit", sid, 0, 0)>>]
    ELSE [os |-> os, layer |-> Commit(layer), ok |-> TRUE,
          ev |-> <<Ev("render", sid, 0, 0), Ev("commit", sid, 0, 0)>>]

\* render that commits the layer only when it presented a frame.
RenderCommitOnlyIfFrame(os, layer, sid) ==
    IF IsSome(os.submitted_frame)
    THEN LET frame == Unwrap(os.submitted_frame)
             os1 == [os EXCEPT !.submitted_frame = None]
             os2 == DevicePoll(os1, frame[2])
         IN  [os |-> Present(os2, frame), layer |-> Commit(layer), ok |-> TRUE,
              ev |-> <<Ev("render", sid, 0, 0),
                       WaitEv(os1, sid, frame[2]),
                       PresentEv(os2, sid, frame),
                       Ev("commit", sid, 0, 0)>>]
    ELSE [os |-> os, layer |-> layer, ok |-> TRUE,
          ev |-> <<Ev("render", sid, 0, 0)>>]

\* OutputSurface::render (the present phase).  layer: the wl_surface.
Render(os, layer, sid) ==
    IF IsSome(os.submitted_frame)
    THEN LET frame == Unwrap(os.submitted_frame)
             os1 == [os EXCEPT !.submitted_frame = None]
             os2 == DevicePoll(os1, frame[2])
         IN  [os |-> Present(os2, frame), layer |-> Commit(layer), ok |-> TRUE,
              ev |-> <<Ev("render", sid, 0, 0),
                       WaitEv(os1, sid, frame[2]),
                       PresentEv(os2, sid, frame),
                       Ev("commit", sid, 0, 0)>>]
    ELSE [os |-> os, layer |-> Commit(layer), ok |-> TRUE,
          ev |-> <<Ev("render", sid, 0, 0), Ev("commit", sid, 0, 0)>>]

-----------------------------------------------------------------------------
(* BackgroundLayer *)

NewBackground(output, sid) ==
    [output |-> output, layer_surface |-> sid, renderer |-> None]

\* Backgrounds::by_id, Backgrounds::by_output: the index of the first entry
\* that matches, 0 when there is none.
RECURSIVE Find(_, _, _, _)
Find(bs, key, field, k) ==
    IF k > Len(bs) THEN 0
    ELSE IF bs[k][field] = key THEN k
    ELSE Find(bs, key, field, k + 1)

by_id(bs, id) == Find(bs, id, "layer_surface", 1)

by_output(bs, output) == Find(bs, output, "output", 1)

\* BackgroundLayer::draw: every entry that has a renderer is drawn, in
\* registry order; unwrap panics on the first draw that returns an error.
RECURSIVE DrawLoop(_, _, _, _)
DrawLoop(bs, k, t, acq) ==
    IF k > Len(bs) THEN [bs |-> bs, ok |-> TRUE, ev |-> <<>>]
    ELSE IF IsSome(bs[k].renderer)
    THEN LET r == Draw(Unwrap(bs[k].renderer), bs[k].layer_surface, t, acq[k])
             bs1 == [bs EXCEPT ![k].renderer = Some(r.os)]
         IN  IF ~r.ok THEN [bs |-> bs1, ok |-> FALSE, ev |-> r.ev]
             ELSE LET rest == DrawLoop(bs1, k + 1, t, acq)
                  IN  [bs |-> rest.bs, ok |-> rest.ok, ev |-> r.ev \o rest.ev]
    ELSE DrawLoop(bs, k + 1, t, acq)

\* BackgroundLayer::draw that also presents what it drew.
BackgroundLayer_draw_presents(bs, t, acq) ==
    LET r == DrawLoop(bs, 1, t, acq)
        shown(b) ==
            IF IsSome(b.renderer) /\ IsSome(Unwrap(b.renderer).submitted_frame)
            THEN LET os == Unwrap(b.renderer)
                     frame == Unwrap(os.submitted_frame)
                 IN  [b EXCEPT !.renderer =
                        Some(Present([DevicePoll(os, frame[2]) EXCEPT
                                          !.submitted_frame = None], frame))]
            ELSE b
        evs(k) ==
            IF IsSome(r.bs[k].renderer) /\ IsSome(Unwrap(r.bs[k].renderer).submitted_frame)
            THEN <<PresentEv(DevicePoll(Unwrap(r.bs[k].renderer),
                                        Unwrap(Unwrap(r.bs[k].renderer).submitted_frame)[2]),
                             r.bs[k].layer_surface,
                             Unwrap(Unwrap(r.bs[k].renderer).submitted_frame))>>
            ELSE <<>>
    IN  IF ~r.ok THEN r
        ELSE [bs |-> [k \in 1..Len(r.bs) |-> shown(r.bs[k])], ok |-> TRUE,
              ev |-> r.ev \o (IF Len(r.bs) >= 1 THEN evs(1) ELSE <<>>)
                          \o (IF Len(r.bs) >= 2 THEN evs(2) ELSE <<>>)]

BackgroundLayer_draw(bs, t, acq) == DrawLoop(bs, 1, t, acq)

\* closed that asks for a clean exit.
closedRequestsExit(ex) == [exit |-> TRUE, panic |-> FALSE]

\* LayerShellHandler::closed for BackgroundLayer: todo!() panics; the exit
\* flag ex is not written.
closed(ex) == [exit |-> ex, panic |-> TRUE]

\* OutputHandler::output_destroyed for BackgroundLayer: an empty body.
output_destroyed(bs, output) == bs

\* BackgroundLayer::set_fft
BackgroundLayer_set_fft(bs, max_f) ==
    [k \in 1..Len(bs) |->
        IF IsSome(bs[k].renderer)
        THEN [bs[k] EXCEPT !.renderer = Some(set_fft(Unwrap(bs[k].renderer), max_f))]
        ELSE bs[k]]

\* BackgroundLayer::reset
BackgroundLayer_reset(bs) == bs

\* configure_output without the by_output check.
configureOutputAlways(bs, wls, output) ==
    LET sid == Len(wls) + 1
    IN  [bs |-> Append(bs, NewBackground(output, sid)),
         wl |-> Append(wls, Commit(NewWlSurface)),
         ev |-> <<Ev("create_layer", sid, 0, 0), Ev("commit", sid, 0, 0)>>]

\* BackgroundLayer::configure_output
configure_output(bs, wls, output) ==
    IF by_output(bs, output) # 0 THEN [bs |-> bs, wl |-> wls, ev |-> <<>>]
    ELSE LET sid == Len(wls) + 1
         IN  [bs |-> Append(bs, NewBackground(output, sid)),
              wl |-> Append(wls, Commit(NewWlSurface)),
              ev |-> <<Ev("create_layer", sid, 0, 0), Ev("commit", sid, 0, 0)>>]

\* frame that asks for the next callback only when it presented a frame.
frameRequestsOnlyIfPresented(bs, wls, sid) ==
    LET k == by_id(bs, sid)
    IN  IF k # 0 /\ IsSome(bs[k].renderer)
        THEN LET os == Unwrap(bs[k].renderer)
                 held == IsSome(os.submitted_frame)
                 layer1 == IF held THEN FrameRequest(wls[sid]) ELSE wls[sid]
                 r == Render(os, layer1, sid)
             IN  [bs |-> [bs EXCEPT ![k].renderer = Some(r.os)],
                  wl |-> [wls EXCEPT ![sid] = r.layer], ok |-> r.ok,
                  ev |-> (IF held THEN <<Ev("frame_req", sid, 0, 0)>> ELSE <<>>) \o r.ev]
        ELSE [bs |-> bs, wl |-> wls, ok |-> TRUE, ev |-> <<>>]

\* frame that asks for the next callback after the present and commit.
frameRequestAfterRender(bs, wls, sid) ==
    LET k == by_id(bs, sid)
    IN  IF k # 0 /\ IsSome(bs[k].renderer)
        THEN LET r == Render(Unwrap(bs[k].renderer), wls[sid], sid)
             IN  [bs |-> [bs EXCEPT ![k].renderer = Some(r.os)],
                  wl |-> [wls EXCEPT ![sid] = FrameRequest(r.layer)],
                  ok |-> r.ok, ev |-> r.ev \o <<Ev("frame_req", sid, 0, 0)>>]
        ELSE [bs |-> bs, wl |-> [wls EXCEPT ![sid] = FrameRequest(wls[sid])],
              ok |-> TRUE, ev |-> <<Ev("frame_req", sid, 0, 0)>>]

\* CompositorHandler::frame for BackgroundLayer
frame(bs, wls, sid) ==
    LET layer1 == FrameRequest(wls[sid])
        ev0 == <<Ev("frame_req", sid, 0, 0)>>
        k == by_id(bs, sid)
    IN  IF k # 0 /\ IsSome(bs[k].renderer)
        THEN LET r == Render(Unwrap(bs[k].renderer), layer1, sid)
             IN  [bs |-> [bs EXCEPT ![k].renderer = Some(r.os)],
                  wl |-> [wls EXCEPT ![sid] = r.layer],
                  ok |-> r.ok, ev |-> ev0 \o r.ev]
        ELSE [bs |-> bs, wl |-> [wls EXCEPT ![sid] = layer1],
              ok |-> TRUE, ev |-> ev0]

\* configure that asks for a frame callback on every configure event.
configureAlwaysRequests(bs, wls, sid, size, t, created, acquired) ==
    LET k == by_id(bs, sid)
    IN  IF k = 0 THEN [bs |-> bs, wl |-> wls, ok |-> TRUE, ev |-> <<>>]
        ELSE IF ~IsSome(bs[k].renderer) /\ ~created
        THEN [bs |-> bs, wl |-> wls, ok |-> FALSE,
              ev |-> <<Ev("new_err", sid, 0, 0)>>]
        ELSE LET os0 == IF IsSome(bs[k].renderer) THEN Unwrap(bs[k].renderer)
                        ELSE NewOutputSurface(size[1], size[2], t)
                 layer1 == FrameRequest(wls[sid])
                 ev0 == <<Ev("frame_req", sid, 0, 0)>>
                 d == Draw(os0, sid, t, acquired)
             IN  IF ~d.ok
                 THEN [bs |-> bs, wl |-> [wls EXCEPT ![sid] = layer1],
                       ok |-> FALSE, ev |-> ev0 \o d.ev]
                 ELSE LET r == Render(d.os, layer1, sid)
                      IN  [bs |-> [bs EXCEPT ![k].renderer = Some(r.os)],
                           wl |-> [wls EXCEPT ![sid] = r.layer],
                           ok |-> r.ok, ev |-> ev0 \o d.ev \o r.ev]

\* configure that builds a new OutputSurface on every configure event.
configureRebuilds(bs, wls, sid, size, t, created, acquired) ==
    LET k == by_id(bs, sid)
    IN  IF k = 0 THEN [bs |-> bs, wl |-> wls, ok |-> TRUE, ev |-> <<>>]
        ELSE IF ~created
        THEN [bs |-> bs, wl |-> wls, ok |-> FALSE,
              ev |-> <<Ev("new_err", sid, 0, 0)>>]
        ELSE LET os0 == NewOutputSurface(size[1], size[2], t)
                 layer1 == FrameRequest(wls[sid])
                 ev0 == <<Ev("new", sid, 0, 0), Ev("frame_req", sid, 0, 0)>>
                 d == Draw(os0, sid, t, acquired)
             IN  IF ~d.ok
                 THEN [bs |-> bs, wl |-> [wls EXCEPT ![sid] = layer1],
                       ok |-> FALSE, ev |-> ev0 \o d.ev]
                 ELSE LET r == Render(d.os, layer1, sid)
                      IN  [bs |-> [bs EXCEPT ![k].renderer = Some(r.os)],
                           wl |-> [wls EXCEPT ![sid] = r.layer],
                           ok |-> r.ok, ev |-> ev0 \o d.ev \o r.ev]

\* configure that writes the size it carries to the resolution uniform of
\* an existing renderer.
configureResizes(bs, wls, sid, size, t, created, acquired) ==
    LET k == by_id(bs, sid)
    IN  IF k = 0 THEN [bs |-> bs, wl |-> wls, ok |-> TRUE, ev |-> <<>>]
        ELSE IF IsSome(bs[k].renderer)
        THEN LET d == Draw([Unwrap(bs[k].renderer) EXCEPT
                               !.i_resolution = <<size[1], size[2], 0>>],
                           sid, t, acquired)
             IN  [bs |-> [bs EXCEPT ![k].renderer = Some(d.os)], wl |-> wls,
                  ok |-> d.ok, ev |-> d.ev]
        ELSE IF ~created
        THEN [bs |-> bs, wl |-> wls, ok |-> FALSE,
              ev |-> <<Ev("new_err", sid, 0, 0)>>]
        ELSE LET os0 == NewOutputSurface(size[1], size[2], t)
                 layer1 == FrameRequest(wls[sid])
                 ev0 == <<Ev("new", sid, 0, 0), Ev("frame_req", sid, 0, 0)>>
                 d == Draw(os0, sid, t, acquired)
             IN  IF ~d.ok
                 THEN [bs |-> bs, wl |-> [wls EXCEPT ![sid] = layer1],
                       ok |-> FALSE, ev |-> ev0 \o d.ev]
                 ELSE LET r == Render(d.os, layer1, sid)
                      IN  [bs |-> [bs EXCEPT ![k].renderer = Some(r.os)],
                           wl |-> [wls EXCEPT ![sid] = r.layer],
                           ok |-> r.ok, ev |-> ev0 \o d.ev \o r.ev]

\* configure whose first-configure path draws and stores the renderer
\* without presenting.
configureDrawsOnly(bs, wls, sid, size, t, created, acquired) ==
    LET k == by_id(bs, sid)
    IN  IF k = 0 THEN [bs |-> bs, wl |-> wls, ok |-> TRUE, ev |-> <<>>]
        ELSE IF IsSome(bs[k].renderer)
        THEN LET d == Draw(Unwrap(bs[k].renderer), sid, t, acquired)
             IN  [bs |-> [bs EXCEPT ![k].renderer = Some(d.os)], wl |-> wls,
                  ok |-> d.ok, ev |-> d.ev]
        ELSE IF ~created
        THEN [bs |-> bs, wl |-> wls, ok |-> FALSE,
              ev |-> <<Ev("new_err", sid, 0, 0)>>]
        ELSE LET os0 == NewOutputSurface(size[1], size[2], t)
                 layer1 == FrameRequest(wls[sid])
                 ev0 == <<Ev("new", sid, 0, 0), Ev("frame_req", sid, 0, 0)>>
                 d == Draw(os0, sid, t, acquired)
             IN  IF ~d.ok
                 THEN [bs |-> bs, wl |-> [wls EXCEPT ![sid] = layer1],
                       ok |-> FALSE, ev |-> ev0 \o d.ev]
                 ELSE [bs |-> [bs EXCEPT ![k].renderer = Some(d.os)],
                       wl |-> [wls EXCEPT ![sid] = layer1],
                       ok |-> TRUE, ev |-> ev0 \o d.ev]

\* LayerShellHandler::configure for BackgroundLayer.  created: whether
\* OutputSurface::new succeeds; acquired: whether get_current_texture does.
configure(bs, wls, sid, size, t, created, acquired) ==
    LET k == by_id(bs, sid)
    IN  IF k = 0 THEN [bs |-> bs, wl |-> wls, ok |-> TRUE, ev |-> <<>>]
        ELSE IF IsSome(bs[k].renderer)
        THEN LET d == Draw(Unwrap(bs[k].renderer), sid, t, acquired)
             IN  [bs |-> [bs EXCEPT ![k].renderer = Some(d.os)], wl |-> wls,
                  ok |-> d.ok, ev |-> d.ev]
        ELSE IF ~created
        THEN [bs |-> bs, wl |-> wls, ok |-> FALSE,
              ev |-> <<Ev("new_err", sid, 0, 0)>>]
        ELSE LET os0 == NewOutputSurface(size[1], size[2], t)
                 layer1 == FrameRequest(wls[sid])
                 ev0 == <<Ev("new", sid, 0, 0), Ev("frame_req", sid, 0, 0)>>
                 d == Draw(os0, sid, t, acquired)
             IN  IF ~d.ok
                 THEN [bs |-> bs, wl |-> [wls EXCEPT ![sid] = layer1],
                       ok |-> FALSE, ev |-> ev0 \o d.ev]
                 ELSE LET r == Render(d.os, layer1, sid)
                      IN  [bs |-> [bs EXCEPT ![k].renderer = Some(r.os)],
                           wl |-> [wls EXCEPT ![sid] = r.layer],
                           ok |-> r.ok, ev |-> ev0 \o d.ev \o r.ev]

-----------------------------------------------------------------------------
(* The environment's bounds *)

Renderers == {k \in 1..Len(backgrounds) : IsSome(backgrounds[k].renderer)}

Os(k) == Unwrap(backgrounds[k].renderer)

\* draw on entry k of bs would ask the swapchain for a texture.
Attempts(bs, k) ==
    /\ IsSome(bs[k].renderer)
    /\ ~IsSome(Unwrap(bs[k].renderer).submitted_frame)

\* A draw of os stays within MaxFrames.
CanDraw(os) ==
    \/ os.queue_submitted < MaxFrames
    \/ IsSome(os.submitted_frame) /\ os.queue_submitted <= MaxFrames

\* A set_fft of v on os stays within MaxShift.
CanShift(os, v) == os.start_time - v >= 0 - MaxShift

-----------------------------------------------------------------------------
(* Events that are not handlers of the program *)

\* The GPU completes the next submission of a device.
GpuComplete ==
    /\ ~crashed
    /\ \E k \in Renderers :
          /\ Os(k).device_done < Os(k).queue_submitted
          /\ backgrounds' = [backgrounds EXCEPT
                 ![k].renderer = Some([Os(k) EXCEPT !.device_done = @ + 1])]
          /\ ops' = <<>>
    /\ UNCHANGED <<wl, now, exit, destroyed, channel, wgpu, crashed, shader>>

\* Time passes.
ClockTick ==
    /\ ~crashed
    /\ now < MaxTime
    /\ now' = now + 1
    /\ ops' = <<>>
    /\ UNCHANGED <<backgrounds, wl, exit, destroyed, channel, wgpu, crashed, shader>>

\* The compositor fires a registered frame callback: the done event is
\* queued for the client.
CompositorFire ==
    /\ ~crashed
    /\ \E sid \in 1..Len(wl) :
          /\ wl[sid].callbacks > 0
          /\ wl[sid].fired < MaxFired
          /\ wl' = [wl EXCEPT ![sid].callbacks = @ - 1,
                              ![sid].events = @ + 1,
                              ![sid].fired = @ + 1]
          /\ ops' = <<>>
    /\ UNCHANGED <<backgrounds, now, exit, destroyed, channel, wgpu, crashed, shader>>

-----------------------------------------------------------------------------
(* The fragment shader source of OutputSurface::new.  A source is known by *)
(* where it came from and by the uniform names its text contains.          *)

UNSUPPORTED_UNIFORMS ==
    {"iTimeDelta", "iChannelTime", "iChannelResolution", "iDate", "iSampleRate",
     "iChannel0", "iChannel1", "iChannel2", "iChannel3"}

\* Uniform names that the text of a shader may contain.
UniformNames == {"iTime", "iChannel0"}

\* No shader is being loaded.
NoShader == [av |-> None, seascape |-> {}, ring |-> {}, file |-> None,
             remote |-> None, call |-> "", result |-> None]

Source(origin, uses) == [origin |-> origin, uses |-> uses, formatted |-> FALSE]

\* format_shader_src: the source between PREFIX and SUFFIX.
format_shader_src(src) == [src EXCEPT !.formatted = TRUE]

ShaderOk(src) == [ok |-> TRUE, src |-> src, err |-> ""]

ShaderErr(err) == [ok |-> FALSE, src |-> Source("", {}), err |-> err]

\* load_fragment_shader in which a shader path wins over an example name.
loadFragmentShaderPathFirst(av, sh) ==
    LET found ==
          IF IsSome(av.shaderpath)
          THEN IF IsSome(sh.file)
               THEN ShaderOk(Source("file", Unwrap(sh.file)))
               ELSE ShaderErr("could not open")
          ELSE IF IsSome(av.examplename)
          THEN IF Unwrap(av.examplename) = "seascape"
               THEN ShaderOk(Source("example", sh.seascape))
               ELSE IF Unwrap(av.examplename) = "elemental-ring"
               THEN ShaderOk(Source("example", sh.ring))
               ELSE ShaderErr("no such example")
          ELSE ShaderOk(Source("default", sh.seascape))
    IN  IF ~found.ok THEN found
        ELSE IF found.src.uses \cap UNSUPPORTED_UNIFORMS = {}
        THEN ShaderOk(format_shader_src(found.src))
        ELSE ShaderErr("unsupported uniforms")

\* load_fragment_shader.  sh.seascape and sh.ring are the names contained
\* in the two built-in examples, sh.file the names in the file at
\* av.shaderpath (None when it cannot be opened or read).
load_fragment_shader(av, sh) ==
    LET found ==
          IF IsSome(av.examplename)
          THEN IF Unwrap(av.examplename) = "seascape"
               THEN ShaderOk(Source("example", sh.seascape))
               ELSE IF Unwrap(av.examplename) = "elemental-ring"
               THEN ShaderOk(Source("example", sh.ring))
               ELSE ShaderErr("no such example")
          ELSE IF IsSome(av.shaderpath)
               THEN IF IsSome(sh.file)
                    THEN ShaderOk(Source("file", Unwrap(sh.file)))
                    ELSE ShaderErr("could not open")
               ELSE ShaderOk(Source("default", sh.seascape))
    IN  IF ~found.ok THEN found
        ELSE IF found.src.uses \cap UNSUPPORTED_UNIFORMS = {}
        THEN ShaderOk(format_shader_src(found.src))
        ELSE ShaderErr("unsupported uniforms")

\* OutputSurface::new, up to frag_src_buf: the ArgValues it builds have
\* only getid set.  sh.remote: the names contained in the code that
\* download returns (None when the download fails).
new_frag_src(shader_id, sh) ==
    LET av == [shaderpath |-> None, examplename |-> None, getid |-> shader_id]
    IN  IF IsSome(av.getid)
        THEN IF IsSome(sh.remote)
             THEN ShaderOk(format_shader_src(Source("download", Unwrap(sh.remote))))
             ELSE ShaderErr("download")
        ELSE load_fragment_shader(av, sh)

-----------------------------------------------------------------------------
(* main() of main.rs and its application state, Wgpu *)

\* The process does not run main.rs's Wgpu application.
NoWgpu == [output_surfaces |-> <<>>, pc |-> "none", dropped |-> <<>>]

\* The orders in which output_state.outputs() can list the outputs that
\* exist at start-up.
OutputLists ==
    {o \in UNION {[1..n -> Outputs] : n \in 0..Cardinality(Outputs)} :
        \A i, j \in DOMAIN o : o[i] = o[j] => i = j}

\* main.rs's OutputSurface, as main builds it: the layer surface is
\* created and committed, the wgpu surface exists, nothing is rendered.
NewWgpuSurface(output, sid) ==
    [output |-> output, layer |-> sid, renderable |-> None,
     acquired |-> 0, submitted |-> 0, presented |-> 0]

\* Renderable, as Renderable::new and the configure handler build it.
NewRenderable(t) ==
    [surface_texture |-> None, texture_view |-> None, time_instant |-> t]

\* frame_start without the test for an unfinished frame.
frameStartNoGuard(r, surf, sid, acquired) ==
    LET ev0 == <<Ev("frame_start", sid, 0, 0)>>
        tex == surf.acquired + 1
    IN  IF ~acquired
        THEN [r |-> r, surf |-> surf, ok |-> FALSE, panic |-> TRUE,
              ev |-> ev0 \o <<Ev("acquire_err", sid, 0, 0)>>]
        ELSE [r |-> [r EXCEPT !.surface_texture = Some(tex),
                              !.texture_view = Some(tex)],
              surf |-> [surf EXCEPT !.acquired = tex],
              ok |-> TRUE, panic |-> FALSE,
              ev |-> ev0 \o <<Ev("acquire", sid, tex, 0)>>]

\* Renderable::frame_start.  acquired: whether get_current_texture
\* succeeds; the call panics (expect) when it does not.
frame_start(r, surf, sid, acquired) ==
    LET ev0 == <<Ev("frame_start", sid, 0, 0)>>
        tex == surf.acquired + 1
    IN  IF IsSome(r.surface_texture)
        THEN [r |-> r, surf |-> surf, ok |-> FALSE, panic |-> FALSE, ev |-> ev0]
        ELSE IF ~acquired
        THEN [r |-> r, surf |-> surf, ok |-> FALSE, panic |-> TRUE,
              ev |-> ev0 \o <<Ev("acquire_err", sid, 0, 0)>>]
        ELSE [r |-> [r EXCEPT !.surface_texture = Some(tex),
                              !.texture_view = Some(tex)],
              surf |-> [surf EXCEPT !.acquired = tex],
              ok |-> TRUE, panic |-> FALSE,
              ev |-> ev0 \o <<Ev("acquire", sid, tex, 0)>>]

\* Renderable::render: fails without a texture view; otherwise writes the
\* time uniform, encodes a pass onto the view and submits it.  The submit
\* event carries the view's texture and whether that texture is still held.
Renderable_render(r, surf, sid, t) ==
    LET ev0 == <<Ev("render", sid, 0, 0)>>
    IN  IF ~IsSome(r.texture_view)
        THEN [r |-> r, surf |-> surf, ok |-> FALSE, ev |-> ev0]
        ELSE [r |-> r,
              surf |-> [surf EXCEPT !.submitted = @ + 1],
              ok |-> TRUE,
              ev |-> ev0 \o <<Ev("stage", sid, t - r.time_instant, 0),
                              Ev("submit", sid, Unwrap(r.texture_view),
                                 IF r.surface_texture = r.texture_view
                                 THEN 1 ELSE 0)>>]

\* frame_finish that presents the texture and keeps holding it.
frameFinishKeepsTexture(r, surf, sid) ==
    LET ev0 == <<Ev("frame_finish", sid, 0, 0)>>
    IN  IF ~IsSome(r.surface_texture)
        THEN [r |-> r, surf |-> surf, ok |-> FALSE, ev |-> ev0]
        ELSE [r |-> r,
              surf |-> [surf EXCEPT !.presented = @ + 1],
              ok |-> TRUE,
              ev |-> ev0 \o <<Ev("present", sid, Unwrap(r.surface_texture), 1)>>]

\* Renderable::frame_finish: fails without a held texture; otherwise takes
\* the texture and presents it.  The texture view is left as it is.
frame_finish(r, surf, sid) ==
    LET ev0 == <<Ev("frame_finish", sid, 0, 0)>>
    IN  IF ~IsSome(r.surface_texture)
        THEN [r |-> r, surf |-> surf, ok |-> FALSE, ev |-> ev0]
        ELSE [r |-> [r EXCEPT !.surface_texture = None],
              surf |-> [surf EXCEPT !.presented = @ + 1],
              ok |-> TRUE,
              ev |-> ev0 \o <<Ev("present", sid, Unwrap(r.surface_texture), 1)>>]

\* LayerShellHandler::configure for Wgpu: the surface of this layer gets a
\* newly built Renderable, which starts, renders and finishes one frame;
\* each of the three calls is unwrapped with expect.
\* acquired: whether get_current_texture succeeds (frame_start panics if not).
wgpu_configure(w, sid, t, acquired) ==
    LET hit == {i \in 1..Len(w.output_surfaces) : w.output_surfaces[i].layer = sid}
    IN  IF hit = {} THEN [w |-> w, ok |-> TRUE, ev |-> <<>>]
        ELSE LET i == CHOOSE i \in hit : TRUE
                 a == frame_start(NewRenderable(t), w.output_surfaces[i], sid, acquired)
                 b == Renderable_render(a.r, a.surf, sid, t)
                 c == frame_finish(b.r, b.surf, sid)
             IN  IF ~a.ok THEN [w |-> w, ok |-> FALSE, ev |-> a.ev]
                 ELSE IF ~b.ok THEN [w |-> w, ok |-> FALSE, ev |-> a.ev \o b.ev]
                 ELSE IF ~c.ok
                 THEN [w |-> w, ok |-> FALSE, ev |-> a.ev \o b.ev \o c.ev]
                 ELSE [w |-> [w EXCEPT !.output_surfaces[i] =
                                   [c.surf EXCEPT !.renderable = Some(c.r)]],
                       ok |-> TRUE,
                       ev |-> a.ev \o b.ev \o c.ev]

\* CompositorHandler::frame for Wgpu that renders every output surface
\* that has a renderable (OutputSurface::render of main.rs).
wgpuFrameRenders(w, sid, t) ==
    LET hit == {i \in 1..Len(w.output_surfaces) :
                   IsSome(w.output_surfaces[i].renderable)}
    IN  IF hit = {} THEN [w |-> w, ev |-> <<>>]
        ELSE LET i == CHOOSE i \in hit : TRUE
                 s == w.output_surfaces[i]
                 a == frame_start(Unwrap(s.renderable), s, s.layer, TRUE)
                 b == Renderable_render(a.r, a.surf, s.layer, t)
                 c == frame_finish(b.r, b.surf, s.layer)
             IN  [w |-> [w EXCEPT !.output_surfaces[i] =
                             [c.surf EXCEPT !.renderable = Some(c.r)]],
                  ev |-> a.ev \o b.ev \o c.ev]

\* CompositorHandler::frame for Wgpu: a loop over output_surfaces with an
\* empty body.
wgpu_frame(w, sid, t) == [w |-> w, ev |-> <<>>]

\* LayerShellHandler::closed for Wgpu: todo!() panics.
wgpu_closed(ex) == [exit |-> ex, panic |-> TRUE]

\* A loop that never looks at the exit flag.
mainCheckNever(w, ex) == [w EXCEPT !.pc = "dispatch"]

\* main: `if wgpu.exit { break; }` after blocking_dispatch has returned.
main_check(w, ex) == [w EXCEPT !.pc = IF ex THEN "drop" ELSE "dispatch"]

\* main: one iteration of the loop over output_surfaces.into_iter(), which
\* drops the wgpu surface and then the layer of the next element; after the
\* last element main returns.
main_drop(w) ==
    LET i == Len(w.dropped) \div 2 + 1
    IN  IF i > Len(w.output_surfaces) THEN [w EXCEPT !.pc = "done"]
        ELSE [w EXCEPT !.dropped = @ \o <<<<"surface", w.output_surfaces[i].layer>>,
                                          <<"layer", w.output_surfaces[i].layer>>>>]

-----------------------------------------------------------------------------
(* The event loop of BackgroundLayer *)

Init ==
    /\ backgrounds = <<>>
    /\ wl = <<>>
    /\ now = 0
    /\ ops = <<>>
    /\ exit = FALSE
    /\ crashed = FALSE
    /\ destroyed = {}
    /\ channel = <<>>
    /\ shader = NoShader
    /\ wgpu = NoWgpu

\* An output is announced.
ConfigureOutput ==
    /\ ~crashed
    /\ \E output \in Outputs \ destroyed :
          LET r == configure_output(backgrounds, wl, output)
          IN  /\ backgrounds' = r.bs
              /\ wl' = r.wl
              /\ ops' = <<Ev("configure_output", 0, 0, 0)>> \o r.ev
    /\ UNCHANGED <<now, exit, destroyed, channel, wgpu, crashed, shader>>

\* The compositor configures a layer surface.  The outcome of
\* OutputSurface::new is drawn only when the handler calls it, the outcome
\* of get_current_texture only when draw reaches it.
Configure ==
    /\ ~crashed
    /\ \E sid \in 1..Len(wl), size \in Sizes :
          LET k == by_id(backgrounds, sid)
              builds == k # 0 /\ ~IsSome(backgrounds[k].renderer)
              asks == k # 0 /\ Attempts(backgrounds, k)
          IN  \E created \in IF builds THEN BOOLEAN ELSE {TRUE} :
              \E acquired \in IF (builds /\ created) \/ asks THEN BOOLEAN ELSE {TRUE} :
                /\ k # 0 /\ IsSome(backgrounds[k].renderer) => CanDraw(Os(k))
                /\ LET r == configure(backgrounds, wl, sid, size, now, created, acquired)
                   IN  /\ backgrounds' = r.bs
                       /\ wl' = r.wl
                       /\ crashed' = ~r.ok
                       /\ ops' = <<Ev("configure", sid, size[1], size[2])>> \o r.ev
    /\ UNCHANGED <<now, exit, destroyed, channel, wgpu, shader>>

\* The frame-done event of a surface is dispatched.
Frame ==
    /\ ~crashed
    /\ \E sid \in 1..Len(wl) :
          /\ wl[sid].events > 0
          /\ LET r == frame(backgrounds, [wl EXCEPT ![sid].events = @ - 1], sid)
             IN  /\ backgrounds' = r.bs
                 /\ wl' = r.wl
                 /\ crashed' = ~r.ok
                 /\ ops' = <<Ev("frame", sid, 0, 0)>> \o r.ev
    /\ UNCHANGED <<now, exit, destroyed, channel, wgpu, shader>>

\* The frame timer fires.  acq[k]: whether get_current_texture succeeds for
\* entry k, drawn only for the entries whose draw reaches it.
TimerDraw ==
    /\ ~crashed
    /\ \A k \in Renderers : CanDraw(Os(k))
    /\ \E acq \in [1..Len(backgrounds) -> BOOLEAN] :
          /\ \A k \in 1..Len(backgrounds) : ~Attempts(backgrounds, k) => acq[k]
          /\ LET r == BackgroundLayer_draw(backgrounds, now, acq)
             IN  /\ backgrounds' = r.bs
                 /\ crashed' = ~r.ok
                 /\ ops' = <<Ev("timer", 0, 0, 0)>> \o r.ev
    /\ UNCHANGED <<wl, now, exit, destroyed, channel, wgpu, shader>>

\* The audio thread's value is taken from the channel.
SetFft ==
    /\ ~crashed
    /\ \E v \in FftValues :
          /\ \A k \in Renderers : CanShift(Os(k), v)
          /\ backgrounds' = BackgroundLayer_set_fft(backgrounds, v)
          /\ ops' = <<Ev("set_fft", 0, v, 0)>>
    /\ UNCHANGED <<wl, now, exit, destroyed, channel, wgpu, crashed, shader>>

\* The reset signal is delivered.
Reset ==
    /\ ~crashed
    /\ backgrounds' = BackgroundLayer_reset(backgrounds)
    /\ ops' = <<Ev("reset", 0, 0, 0), Ret(TRUE, 0)>>
    /\ UNCHANGED <<wl, now, exit, destroyed, channel, wgpu, crashed, shader>>

Next ==
    \/ ConfigureOutput
    \/ Configure
    \/ CompositorFire
    \/ Frame
    \/ TimerDraw
    \/ GpuComplete

Spec == Init /\ [][Next]_vars

\* The event loop under the scheduling that a running session provides: the
\* timer keeps firing, the compositor fires every registered frame callback
\* of every surface, the loop dispatches every queued frame-done event, and
\* the GPU completes what was submitted.
FiredFor(sid) ==
    /\ CompositorFire
    /\ sid <= Len(wl)
    /\ wl'[sid].fired # wl[sid].fired

FrameFor(sid) ==
    /\ Frame
    /\ ops'[1].s = sid

FairSpec ==
    /\ Spec
    /\ WF_vars(TimerDraw)
    /\ WF_vars(GpuComplete)
    /\ \A sid \in 1..Cardinality(Outputs) :
          WF_vars(FiredFor(sid)) /\ WF_vars(FrameFor(sid))

-----------------------------------------------------------------------------
(* The same event loop with outputs that can go away *)

\* The compositor removes an output; output_destroyed is dispatched.
OutputDestroyed ==
    /\ ~crashed
    /\ \E output \in Outputs \ destroyed :
          LET k == by_output(backgrounds, output)
          IN  /\ backgrounds' = output_destroyed(backgrounds, output)
              /\ destroyed' = destroyed \cup {output}
              /\ ops' = <<Ev("output_destroyed",
                             IF k = 0 THEN 0 ELSE backgrounds[k].layer_surface,
                             0, 0)>>
    /\ UNCHANGED <<wl, now, exit, crashed, channel, wgpu, shader>>

NextHotplug ==
    \/ Next
    \/ OutputDestroyed

SpecHotplug == Init /\ [][NextHotplug]_vars

-----------------------------------------------------------------------------
(* One OutputSurface, called directly: any sequence of draw, render, wait, *)
(* set_fft, reset and load_shader on the surface OutputSurface::new built. *)

InitOS ==
    /\ \E size \in Sizes, output \in Outputs :
          backgrounds = <<[NewBackground(output, 1) EXCEPT
                             !.renderer = Some(NewOutputSurface(size[1], size[2], 0))]>>
    /\ wl = <<Commit(NewWlSurface)>>
    /\ now = 0
    /\ ops = <<>>
    /\ exit = FALSE
    /\ crashed = FALSE
    /\ destroyed = {}
    /\ channel = <<>>
    /\ shader = NoShader
    /\ wgpu = NoWgpu

OsDraw ==
    \E k \in Renderers, acquired \in BOOLEAN :
        /\ CanDraw(Os(k))
        /\ LET r == Draw(Os(k), backgrounds[k].layer_surface, now, acquired)
           IN  /\ backgrounds' = [backgrounds EXCEPT ![k].renderer = Some(r.os)]
               /\ ops' = r.ev \o <<Ret(r.ok, backgrounds[k].layer_surface)>>
        /\ UNCHANGED <<wl, now, exit, destroyed, channel, wgpu, crashed, shader>>

OsRender ==
    \E k \in Renderers :
        LET sid == backgrounds[k].layer_surface
            r == Render(Os(k), wl[sid], sid)
        IN  /\ backgrounds' = [backgrounds EXCEPT ![k].renderer = Some(r.os)]
            /\ wl' = [wl EXCEPT ![sid] = r.layer]
            /\ ops' = r.ev \o <<Ret(r.ok, sid)>>
            /\ UNCHANGED <<now, exit, destroyed, channel, wgpu, crashed, shader>>

\* The caller asks for a frame callback on the layer, as the handlers do
\* before they call render.
OsFrameRequest ==
    \E k \in Renderers :
        LET sid == backgrounds[k].layer_surface
        IN  /\ Outstanding(wl[sid]) = 0
            /\ wl' = [wl EXCEPT ![sid] = FrameRequest(wl[sid])]
            /\ ops' = <<Ev("frame_req", sid, 0, 0)>>
            /\ UNCHANGED <<backgrounds, now, exit, destroyed, channel, wgpu, crashed, shader>>

OsWait ==
    \E k \in Renderers :
        LET sid == backgrounds[k].layer_surface
            r == Wait(Os(k), sid)
        IN  /\ backgrounds' = [backgrounds EXCEPT ![k].renderer = Some(r.os)]
            /\ ops' = r.ev \o <<Ret(r.ok, sid)>>
            /\ UNCHANGED <<wl, now, exit, destroyed, channel, wgpu, crashed, shader>>

OsSetFft ==
    \E k \in Renderers, v \in FftValues :
        /\ CanShift(Os(k), v)
        /\ backgrounds' = [backgrounds EXCEPT ![k].renderer = Some(set_fft(Os(k), v))]
        /\ ops' = <<Ev("set_fft", backgrounds[k].layer_surface, v, 0)>>
        /\ UNCHANGED <<wl, now, exit, destroyed, channel, wgpu, crashed, shader>>

OsReset ==
    \E k \in Renderers :
        /\ backgrounds' = [backgrounds EXCEPT ![k].renderer = Some(reset(Os(k)))]
        /\ ops' = <<Ev("reset", backgrounds[k].layer_surface, 0, 0),
                    Ret(TRUE, backgrounds[k].layer_surface)>>
        /\ UNCHANGED <<wl, now, exit, destroyed, channel, wgpu, crashed, shader>>

OsLoadShader ==
    \E k \in Renderers :
        /\ backgrounds' = [backgrounds EXCEPT ![k].renderer = Some(load_shader(Os(k)))]
        /\ ops' = <<Ev("load_shader", backgrounds[k].layer_surface, 0, 0),
                    Ret(TRUE, backgrounds[k].layer_surface)>>
        /\ UNCHANGED <<wl, now, exit, destroyed, channel, wgpu, crashed, shader>>

NextOS ==
    \/ OsDraw
    \/ OsRender
    \/ OsWait
    \/ OsFrameRequest
    \/ OsSetFft
    \/ OsReset
    \/ OsLoadShader
    \/ GpuComplete
    \/ ClockTick
    \/ Reset

SpecOS == InitOS /\ [][NextOS]_vars

-----------------------------------------------------------------------------
(* main() of main.rs: the dispatch loop of Wgpu and the drops after it.    *)
(* No handler in src/ assigns the exit flag; RequestExit stands for the    *)
(* assignment the specification expects a handler to make.                 *)

InitMain ==
    /\ \E o \in OutputLists :
          /\ wgpu = [output_surfaces |-> [i \in DOMAIN o |-> NewWgpuSurface(o[i], i)],
                     pc |-> "dispatch", dropped |-> <<>>]
          /\ wl = [i \in DOMAIN o |-> Commit(NewWlSurface)]
    /\ backgrounds = <<>>
    /\ now = 0
    /\ ops = <<>>
    /\ exit = FALSE
    /\ crashed = FALSE
    /\ destroyed = {}
    /\ channel = <<>>
    /\ shader = NoShader

\* blocking_dispatch delivers a configure event to Wgpu.
WgpuConfigure ==
    /\ ~crashed
    /\ wgpu.pc = "dispatch"
    /\ \E i \in 1..Len(wgpu.output_surfaces), acquired \in BOOLEAN :
          /\ wgpu.output_surfaces[i].presented < MaxFrames
          /\ LET r == wgpu_configure(wgpu, wgpu.output_surfaces[i].layer, now, acquired)
             IN  /\ wgpu' = r.w
                 /\ crashed' = ~r.ok
                 /\ ops' = <<Ev("configure", wgpu.output_surfaces[i].layer, 0, 0)>>
                            \o r.ev
    /\ UNCHANGED <<backgrounds, wl, now, exit, destroyed, channel, shader>>

\* A handler sets the exit flag while it runs.
RequestExit ==
    /\ ~crashed
    /\ wgpu.pc = "dispatch"
    /\ ~exit
    /\ exit' = TRUE
    /\ ops' = <<Ev("exit", 0, 0, 0)>>
    /\ UNCHANGED <<backgrounds, wl, now, crashed, destroyed, channel, wgpu, shader>>

\* blocking_dispatch returns.
DispatchReturns ==
    /\ ~crashed
    /\ wgpu.pc = "dispatch"
    /\ wgpu' = [wgpu EXCEPT !.pc = "check"]
    /\ ops' = <<>>
    /\ UNCHANGED <<backgrounds, wl, now, exit, crashed, destroyed, channel, shader>>

\* The exit flag is tested.
MainCheck ==
    /\ ~crashed
    /\ wgpu.pc = "check"
    /\ wgpu' = main_check(wgpu, exit)
    /\ ops' = <<>>
    /\ UNCHANGED <<backgrounds, wl, now, exit, crashed, destroyed, channel, shader>>

\* After the loop: the next output surface is dropped, or main returns.
MainDrop ==
    /\ ~crashed
    /\ wgpu.pc = "drop"
    /\ wgpu' = main_drop(wgpu)
    /\ ops' = <<>>
    /\ UNCHANGED <<backgrounds, wl, now, exit, crashed, destroyed, channel, shader>>

NextMain ==
    \/ WgpuConfigure
    \/ RequestExit
    \/ DispatchReturns
    \/ MainCheck
    \/ MainDrop

SpecMain == InitMain /\ [][NextMain]_vars

\* blocking_dispatch delivers a frame-done event to Wgpu.
WgpuFrame ==
    /\ ~crashed
    /\ wgpu.pc = "dispatch"
    /\ \E i \in 1..Len(wgpu.output_surfaces) :
          LET sid == wgpu.output_surfaces[i].layer
              r == wgpu_frame(wgpu, sid, now)
          IN  /\ wgpu' = r.w
              /\ ops' = <<Ev("frame", sid, 0, 0)>> \o r.ev
    /\ UNCHANGED <<backgrounds, wl, now, exit, crashed, destroyed, channel, shader>>

\* blocking_dispatch delivers the closed event of a layer surface to Wgpu.
WgpuClosed ==
    /\ ~crashed
    /\ wgpu.pc = "dispatch"
    /\ \E i \in 1..Len(wgpu.output_surfaces) :
          LET r == wgpu_closed(exit)
          IN  /\ exit' = r.exit
              /\ crashed' = r.panic
              /\ ops' = <<Ev("closed", wgpu.output_surfaces[i].layer, 0, 0)>>
    /\ UNCHANGED <<backgrounds, wl, now, destroyed, channel, wgpu, shader>>

\* main.rs with the handlers that Wgpu has.
NextWgpu ==
    \/ WgpuConfigure
    \/ WgpuFrame
    \/ WgpuClosed
    \/ DispatchReturns
    \/ MainCheck
    \/ ClockTick

SpecWgpu == InitMain /\ [][NextWgpu]_vars

\* The closed event of a layer surface is dispatched to BackgroundLayer.
Closed ==
    /\ ~crashed
    /\ \E sid \in 1..Len(wl) :
          LET r == closed(exit)
          IN  /\ exit' = r.exit
              /\ crashed' = r.panic
              /\ ops' = <<Ev("closed", sid, 0, 0)>>
    /\ UNCHANGED <<backgrounds, wl, now, destroyed, channel, wgpu, shader>>

\* Either program: the event loop of BackgroundLayer with its closed
\* handler, or main.rs with Wgpu.
InitEither == Init \/ InitMain

NextEither ==
    \/ wgpu.pc = "none" /\ Next
    \/ wgpu.pc = "none" /\ Closed
    \/ wgpu.pc # "none" /\ NextWgpu

SpecEither == InitEither /\ [][NextEither]_vars

\* blocking_dispatch returns once the events it read are handled, and main
\* runs on: none of its steps waits for anything outside the process.
FairSpecMain ==
    /\ SpecMain
    /\ WF_vars(DispatchReturns)
    /\ WF_vars(MainCheck)
    /\ WF_vars(MainDrop)

-----------------------------------------------------------------------------
(* Loading the fragment shader: load_fragment_shader on any ArgValues, and *)
(* OutputSurface::new with any shader id, over any content of the          *)
(* built-in examples, the shader file and the downloaded code.             *)

ExampleNames == {"seascape", "elemental-ring", "plasma"}

Options(S) == {None} \cup {Some(x) : x \in S}

InitShader ==
    /\ \E examplename \in Options(ExampleNames),
          shaderpath \in Options({"a.frag"}),
          getid \in Options({"XsX3RB"}),
          seascape \in SUBSET UniformNames,
          ring \in SUBSET UniformNames,
          file \in Options(SUBSET UniformNames),
          remote \in Options(SUBSET UniformNames) :
          shader = [av |-> Some([shaderpath |-> shaderpath,
                                 examplename |-> examplename,
                                 getid |-> getid]),
                    seascape |-> seascape, ring |-> ring, file |-> file,
                    remote |-> remote, call |-> "", result |-> None]
    /\ backgrounds = <<>>
    /\ wl = <<>>
    /\ now = 0
    /\ ops = <<>>
    /\ exit = FALSE
    /\ crashed = FALSE
    /\ destroyed = {}
    /\ channel = <<>>
    /\ wgpu = NoWgpu

\* load_fragment_shader is called with the ArgValues.
LoadFragmentShader ==
    /\ shader.result = None
    /\ shader' = [shader EXCEPT
                     !.call = "load_fragment_shader",
                     !.result = Some(load_fragment_shader(Unwrap(shader.av), shader))]
    /\ UNCHANGED <<backgrounds, wl, now, ops, exit, crashed, destroyed, channel,
                   wgpu>>

\* OutputSurface::new is called with the shader id of the ArgValues.
NewFragSrc ==
    /\ shader.result = None
    /\ shader' = [shader EXCEPT
                     !.call = "new",
                     !.result = Some(new_frag_src(Unwrap(shader.av).getid, shader))]
    /\ UNCHANGED <<backgrounds, wl, now, ops, exit, crashed, destroyed, channel,
                   wgpu>>

NextShader ==
    \/ LoadFragmentShader
    \/ NewFragSrc

SpecShader == InitShader /\ [][NextShader]_vars

-----------------------------------------------------------------------------
(* One Renderable, called directly: any sequence of frame_start, render    *)
(* and frame_finish on the Renderable of one output surface.               *)

\* The output surface and its Renderable.
Surf == wgpu.output_surfaces[1]

Rd == Unwrap(Surf.renderable)

\* The output surface after a call that left it as surf and its Renderable
\* as r.
WithRenderable(surf, r) ==
    [wgpu EXCEPT !.output_surfaces[1] = [surf EXCEPT !.renderable = Some(r)]]

InitRenderable ==
    /\ \E output \in Outputs :
          wgpu = [output_surfaces |->
                      <<[NewWgpuSurface(output, 1) EXCEPT
                            !.renderable = Some(NewRenderable(0))]>>,
                  pc |-> "none", dropped |-> <<>>]
    /\ wl = <<Commit(NewWlSurface)>>
    /\ backgrounds = <<>>
    /\ now = 0
    /\ ops = <<>>
    /\ exit = FALSE
    /\ crashed = FALSE
    /\ destroyed = {}
    /\ channel = <<>>
    /\ shader = NoShader

RFrameStart ==
    /\ ~crashed
    /\ Surf.acquired < MaxFrames
    /\ \E acquired \in BOOLEAN :
          LET c == frame_start(Rd, Surf, Surf.layer, acquired)
          IN  /\ wgpu' = WithRenderable(c.surf, c.r)
              /\ crashed' = c.panic
              /\ ops' = IF c.panic THEN c.ev ELSE c.ev \o <<Ret(c.ok, Surf.layer)>>
    /\ UNCHANGED <<backgrounds, wl, now, exit, destroyed, channel, shader>>

RRender ==
    /\ ~crashed
    /\ Surf.submitted < MaxFrames
    /\ LET c == Renderable_render(Rd, Surf, Surf.layer, now)
       IN  /\ wgpu' = WithRenderable(c.surf, c.r)
           /\ ops' = c.ev \o <<Ret(c.ok, Surf.layer)>>
    /\ UNCHANGED <<backgrounds, wl, now, exit, crashed, destroyed, channel, shader>>

RFrameFinish ==
    /\ ~crashed
    /\ LET c == frame_finish(Rd, Surf, Surf.layer)
       IN  /\ wgpu' = WithRenderable(c.surf, c.r)
           /\ ops' = c.ev \o <<Ret(c.ok, Surf.layer)>>
    /\ UNCHANGED <<backgrounds, wl, now, exit, crashed, destroyed, channel, shader>>

NextRenderable ==
    \/ RFrameStart
    \/ RRender
    \/ RFrameFinish
    \/ ClockTick

SpecRenderable == InitRenderable /\ [][NextRenderable]_vars

-----------------------------------------------------------------------------
(* The audio thread, the channel and the event loop's receive.  The loop   *)
(* that owns BackgroundLayer is not part of src/; this part follows the    *)
(* specification: a bounded one-directional channel, a push that never     *)
(* blocks, and at most one value taken per loop iteration by a             *)
(* non-blocking receive, handed to BackgroundLayer::set_fft.               *)

\* push_energy_bands: fire-and-forget; a full channel refuses the value.
push_energy_bands(ch, v) ==
    IF Len(ch) < MaxChannel
    THEN [channel |-> Append(ch, v), ev |-> <<Ev("push", 0, v, 1)>>]
    ELSE [channel |-> ch, ev |-> <<Ev("push", 0, v, 0)>>]

\* A loop iteration that takes every pending value.
loopRecvDrains(bs, ch) ==
    IF ch = <<>>
    THEN [bs |-> bs, channel |-> ch, ev |-> <<Ev("try_recv", 0, 0, 0)>>]
    ELSE [bs |-> BackgroundLayer_set_fft(bs, ch[Len(ch)]), channel |-> <<>>,
          ev |-> <<Ev("try_recv", 0, ch[Len(ch)], 1)>>]

\* The receive of one loop iteration: at most one pending value is taken,
\* without blocking, and passed to set_fft.
loop_recv(bs, ch) ==
    IF ch = <<>>
    THEN [bs |-> bs, channel |-> ch, ev |-> <<Ev("try_recv", 0, 0, 0)>>]
    ELSE [bs |-> BackgroundLayer_set_fft(bs, Head(ch)), channel |-> Tail(ch),
          ev |-> <<Ev("try_recv", 0, Head(ch), 1)>>]

\* The audio thread pushes a value.
AudioPush ==
    \E v \in FftValues :
        LET r == push_energy_bands(channel, v)
        IN  /\ channel' = r.channel
            /\ ops' = r.ev
            /\ UNCHANGED <<backgrounds, wl, now, exit, crashed, destroyed, wgpu, shader>>

\* The event loop starts an iteration and polls the channel.
LoopRecv ==
    /\ channel # <<>> => \A k \in Renderers : CanShift(Os(k), Head(channel))
    /\ LET r == loop_recv(backgrounds, channel)
       IN  /\ backgrounds' = r.bs
           /\ channel' = r.channel
           /\ ops' = r.ev
    /\ UNCHANGED <<wl, now, exit, crashed, destroyed, wgpu, shader>>

NextFeed ==
    \/ AudioPush
    \/ LoopRecv
    \/ OsDraw
    \/ OsRender
    \/ ClockTick

SpecFeed == InitOS /\ [][NextFeed]_vars

-----------------------------------------------------------------------------
(* Reading the last step *)

\* The handler or call that ran last ("" after a step of the environment).
Handler(evs) == IF evs = <<>> THEN "" ELSE evs[1].op

Last(evs) == evs[Len(evs)]

\* How many requests op the last step issued for surface sid.
Count(evs, op, sid) ==
    Cardinality({i \in 1..Len(evs) : evs[i].op = op /\ evs[i].s = sid})

SidOf(k) == backgrounds[k].layer_surface

OsNext(k) == Unwrap(backgrounds'[k].renderer)

-----------------------------------------------------------------------------
(* OutputSurface: the in-flight frame *)

\* C1: an OutputSurface holds 0 or 1 in-flight frame in every reachable
\* state: the swapchain has at most one texture acquired and not presented,
\* it has one exactly when submitted_frame is Some, at most one submission is
\* not yet presented, and no texture is acquired while one is held.
C1_InFlightAtMostOne ==
    \A k \in Renderers :
        LET os == Os(k)
        IN  /\ os.surface_held \in {0, 1}
            /\ os.surface_held = 1 <=> IsSome(os.submitted_frame)
            /\ os.queue_submitted - os.surface_presented \in {0, 1}
            /\ \A i \in 1..Len(ops) : ops[i].op = "acquire" => ops[i].y = 0

\* A second draw came while the second frame was held, and changed nothing.
C1_Witness ==
    /\ Handler(ops) = "draw"
    /\ Len(ops) = 3
    /\ \E k \in Renderers :
          IsSome(Os(k).submitted_frame) /\ Os(k).queue_submitted = 2

\* C2: draw on a surface that holds an in-flight frame returns Ok and leaves
\* the OutputSurface as it was: the held texture and submission index, i_time,
\* i_global_time and the number of submissions included.
C2_DrawWhileHeldIsNoOp ==
    [][\A k \in Renderers :
          (IsSome(Os(k).submitted_frame) /\ Handler(ops') = "draw"
             /\ ops'[1].s = SidOf(k))
          => /\ Last(ops').op = "ok"
             /\ ~crashed'
             /\ OsNext(k).submitted_frame = Os(k).submitted_frame
             /\ OsNext(k).i_time = Os(k).i_time
             /\ OsNext(k).i_global_time = Os(k).i_global_time
             /\ OsNext(k).queue_submitted = Os(k).queue_submitted
             /\ OsNext(k) = Os(k)]_vars

\* draw returned at the guard although the clock had moved on since the held
\* frame was encoded.
C2_Witness ==
    /\ Handler(ops) = "draw"
    /\ Len(ops) = 3
    /\ Last(ops).op = "ok"
    /\ \E k \in Renderers :
          /\ IsSome(Os(k).submitted_frame)
          /\ now - Os(k).start_time # Os(k).i_time

\* C3: a draw encodes and submits frame N+1 only in a state where frame N has
\* been presented and the in-flight slot is empty.
C3_DrawAfterPresent ==
    [][\A k \in Renderers :
          OsNext(k).queue_submitted # Os(k).queue_submitted
          => /\ OsNext(k).queue_submitted = Os(k).queue_submitted + 1
             /\ Os(k).submitted_frame = None
             /\ Os(k).surface_presented = Os(k).queue_submitted]_vars

\* The second frame is in flight, the first one has been presented.
C3_Witness ==
    \E k \in Renderers :
        /\ Os(k).queue_submitted = 2
        /\ Os(k).surface_presented = 1
        /\ IsSome(Os(k).submitted_frame)
        /\ Handler(ops) = "draw"

\* C4: render with a frame held waits for the stored submission index, then
\* presents the stored texture, whose submission is complete by then, then
\* commits; the slot is empty afterwards.
C4_PresentAfterWait ==
    [][\A k \in Renderers :
          (IsSome(Os(k).submitted_frame) /\ Handler(ops') = "render"
             /\ ops'[1].s = SidOf(k))
          => LET held == Unwrap(Os(k).submitted_frame)
             IN  /\ Len(ops') = 5
                 /\ ops'[2].op = "wait_for" /\ ops'[2].x = held[2]
                 /\ ops'[3] = Ev("present", SidOf(k), held[1], 1)
                 /\ ops'[4].op = "commit"
                 /\ ops'[5].op = "ok"
                 /\ OsNext(k).submitted_frame = None
                 /\ OsNext(k).device_done >= held[2]
                 /\ OsNext(k).surface_presented = Os(k).surface_presented + 1]_vars

\* render had to block for the GPU before it presented.
C4_Witness ==
    /\ Handler(ops) = "render"
    /\ Len(ops) = 5
    /\ ops[2].op = "wait_for" /\ ops[2].y = 1
    /\ ops[3].op = "present"

\* C5 as stated: render with no frame held has no effect at all, neither on
\* the OutputSurface nor on the compositor.
C5_RenderIdleNoEffect ==
    [][\A k \in Renderers :
          (Os(k).submitted_frame = None /\ Handler(ops') = "render"
             /\ ops'[1].s = SidOf(k))
          => /\ Last(ops').op = "ok"
             /\ Count(ops', "present", SidOf(k)) = 0
             /\ OsNext(k) = Os(k)
             /\ Count(ops', "commit", SidOf(k)) = 0
             /\ wl' = wl]_vars

\* C5, amended: render with no frame held returns Ok, presents nothing and
\* leaves the OutputSurface unchanged; it still commits the layer surface,
\* which applies a pending frame-callback request.
C5_RenderIdleOnlyCommits ==
    [][\A k \in Renderers :
          (Os(k).submitted_frame = None /\ Handler(ops') = "render"
             /\ ops'[1].s = SidOf(k))
          => /\ ops' = <<Ev("render", SidOf(k), 0, 0),
                        Ev("commit", SidOf(k), 0, 0),
                        Ev("ok", SidOf(k), 0, 0)>>
             /\ OsNext(k) = Os(k)
             /\ wl'[SidOf(k)].pending = 0
             /\ wl'[SidOf(k)].callbacks
                  = wl[SidOf(k)].callbacks + wl[SidOf(k)].pending]_vars

\* A render that presented nothing has committed a requested frame callback.
C5_Witness ==
    /\ Handler(ops) = "render"
    /\ Len(ops) = 3
    /\ \E k \in Renderers :
          /\ Os(k).surface_presented = 0
          /\ Os(k).submitted_frame = None
          /\ wl[SidOf(k)].callbacks = 1

-----------------------------------------------------------------------------
(* BackgroundLayer: frame callbacks *)

C8_FrameDrawsAndPresentsOnce ==
    Handler(ops) = "frame"
    => /\ Count(ops, "draw", ops[1].s) = 1
       /\ Count(ops, "present", ops[1].s) = 1
       /\ Outstanding(wl[ops[1].s]) = 1

\* C8, amended: handling a frame-done event of a surface that has a renderer
\* draws nothing, presents the in-flight frame when there is one and nothing
\* otherwise, commits the surface once, and leaves the slot empty and exactly
\* one new callback outstanding.
C8_FramePresentsWhatIsHeld ==
    [][\A k \in Renderers :
          (Handler(ops') = "frame" /\ ops'[1].s = SidOf(k))
          => /\ Count(ops', "draw", SidOf(k)) = 0
             /\ Count(ops', "submit", SidOf(k)) = 0
             /\ OsNext(k).queue_submitted = Os(k).queue_submitted
             /\ Count(ops', "present", SidOf(k))
                  = IF IsSome(Os(k).submitted_frame) THEN 1 ELSE 0
             /\ OsNext(k).surface_presented
                  = Os(k).surface_presented
                      + IF IsSome(Os(k).submitted_frame) THEN 1 ELSE 0
             /\ Count(ops', "commit", SidOf(k)) = 1
             /\ OsNext(k).submitted_frame = None
             /\ Outstanding(wl'[SidOf(k)]) = 1
             /\ ~crashed']_vars

\* A frame-done event was handled with no frame in flight: nothing was
\* presented, and the next callback is outstanding.
C8_Witness ==
    /\ Handler(ops) = "frame"
    /\ Count(ops, "present", ops[1].s) = 0
    /\ Count(ops, "commit", ops[1].s) = 1
    /\ Outstanding(wl[ops[1].s]) = 1

C10_PresentsFollowCallbacks ==
    /\ \A k \in Renderers :
          Os(k).surface_presented + wl[SidOf(k)].events <= wl[SidOf(k)].fired + 1
    /\ \A i \in 1..Len(ops) :
          ops[i].op = "present"
          => /\ Handler(ops) \in {"frame", "configure"}
             /\ Handler(ops) = "configure" => ops[i].x = 1

\* A timer tick drew a frame on a surface that has presented as often as the
\* callbacks allow; the frame waits in the slot.
C10_Witness ==
    /\ Handler(ops) = "timer"
    /\ \E k \in Renderers :
          /\ wl[SidOf(k)].fired >= 1
          /\ Os(k).surface_presented = wl[SidOf(k)].fired + 1
          /\ IsSome(Os(k).submitted_frame)
          /\ Count(ops, "submit", SidOf(k)) = 1

-----------------------------------------------------------------------------
\* C11: the registry holds at most one entry per output, and one layer
\* surface per entry: a configure_output for an output that already has an
\* entry adds nothing and creates no further layer surface.
C11_OneEntryPerOutput ==
    /\ Len(wl) = Len(backgrounds)
    /\ \A i, j \in 1..Len(backgrounds) :
          backgrounds[i].output = backgrounds[j].output => i = j
    /\ \A output \in Outputs :
          Cardinality({k \in 1..Len(backgrounds) :
                         backgrounds[k].output = output}) <= 1

\* configure_output has just returned early for an output that was already
\* registered, with every output registered.
C11_Witness ==
    /\ Handler(ops) = "configure_output"
    /\ Len(ops) = 1
    /\ Len(backgrounds) = Cardinality(Outputs)

-----------------------------------------------------------------------------
\* C12 (as stated): a configure event for a surface that already has a
\* renderer is a no-op: it changes no state and issues no request.
C12_ReconfigureIsNoOp ==
    [][\A k \in Renderers :
          Handler(ops') = "configure" /\ ops'[1].s = SidOf(k)
          => /\ backgrounds' = backgrounds
             /\ wl' = wl
             /\ Len(ops') = 1]_vars

\* C12 (amended): a configure event for a surface that already has a
\* renderer builds nothing and replaces nothing (the size it carries is
\* ignored), presents nothing, commits nothing and requests no callback; it
\* calls draw once: with a frame in flight nothing changes, with none one
\* frame is encoded and submitted and becomes the frame in flight, unless
\* the texture cannot be acquired, which ends the process.
C12_ReconfigureOnlyDraws ==
    [][Handler(ops') = "configure" =>
       \A k \in Renderers :
          ops'[1].s = SidOf(k)
          => /\ wl' = wl
             /\ Len(backgrounds') = Len(backgrounds)
             /\ \A j \in 1..Len(backgrounds) :
                   j # k => backgrounds'[j] = backgrounds[j]
             /\ IsSome(backgrounds'[k].renderer)
             /\ OsNext(k).i_resolution = Os(k).i_resolution
             /\ OsNext(k).start_time = Os(k).start_time
             /\ OsNext(k).i_mouse0 = Os(k).i_mouse0
             /\ OsNext(k).surface_presented = Os(k).surface_presented
             /\ \A i \in 1..Len(ops') :
                   ops'[i].op \notin {"new", "new_err", "frame_req", "present",
                                     "commit", "wait_for"}
             /\ Count(ops', "draw", SidOf(k)) = 1
             /\ IsSome(Os(k).submitted_frame)
                   => backgrounds' = backgrounds /\ ~crashed'
             /\ ~IsSome(Os(k).submitted_frame) /\ ~crashed'
                   => /\ OsNext(k).queue_submitted = Os(k).queue_submitted + 1
                      /\ OsNext(k).submitted_frame
                           = Some(<<OsNext(k).surface_acquired,
                                    OsNext(k).queue_submitted>>)
                      /\ Count(ops', "submit", SidOf(k)) = 1
             /\ ~IsSome(Os(k).submitted_frame) /\ crashed'
                   => /\ OsNext(k).queue_submitted = Os(k).queue_submitted
                      /\ Count(ops', "acquire_err", SidOf(k)) = 1]_vars

\* A configure event for a surface with a renderer and no frame in flight
\* has just submitted a frame.
C12_Witness ==
    /\ Handler(ops) = "configure"
    /\ \E i \in 1..Len(ops) : ops[i].op = "submit"
    /\ \A i \in 1..Len(ops) : ops[i].op # "new"

-----------------------------------------------------------------------------
\* C13: a renderer is created lazily.  An entry is registered (by
\* configure_output) without a renderer; the renderer appears only in the
\* configure handler of the entry's own surface, and every such handler that
\* returns leaves it present; once present it is never removed and never
\* replaced by a newly built one.
C13_RendererCreatedLazily ==
    [][\A k \in 1..Len(backgrounds') :
          IF k > Len(backgrounds)
          THEN /\ Handler(ops') = "configure_output"
               /\ backgrounds'[k].renderer = None
          ELSE /\ backgrounds'[k].output = backgrounds[k].output
               /\ backgrounds'[k].layer_surface = SidOf(k)
               /\ ~IsSome(backgrounds[k].renderer)
                     => /\ IsSome(backgrounds'[k].renderer)
                           => /\ Handler(ops') = "configure"
                              /\ ops'[1].s = SidOf(k)
                              /\ Count(ops', "new", SidOf(k)) = 1
                        /\ Handler(ops') = "configure" /\ ops'[1].s = SidOf(k)
                              /\ ~crashed'
                           => IsSome(backgrounds'[k].renderer)
               /\ IsSome(backgrounds[k].renderer)
                     => /\ IsSome(backgrounds'[k].renderer)
                        /\ Count(ops', "new", SidOf(k)) = 0
                        /\ OsNext(k).i_resolution = Os(k).i_resolution
                        /\ OsNext(k).surface_acquired >= Os(k).surface_acquired
                        /\ OsNext(k).queue_submitted >= Os(k).queue_submitted
                        /\ OsNext(k).surface_presented
                             >= Os(k).surface_presented]_vars

\* A configure event has just reached a surface whose renderer an earlier
\* configure event built (it has presented a frame since), while another
\* registered output has no renderer yet.
C13_Witness ==
    /\ Len(backgrounds) = 2
    /\ \E k \in Renderers :
          /\ Handler(ops) = "configure"
          /\ ops[1].s = SidOf(k)
          /\ Count(ops, "new", SidOf(k)) = 0
          /\ Os(k).surface_presented >= 1
    /\ \E j \in 1..Len(backgrounds) : ~IsSome(backgrounds[j].renderer)

-----------------------------------------------------------------------------
\* C14: once the compositor has removed an output, the registry holds no
\* entry (and so no renderer) for it, and no handler draws (submits a frame)
\* or presents on its surface any more.
C14_DestroyedOutputIsGone ==
    \A output \in destroyed :
       /\ by_output(backgrounds, output) = 0
       /\ \A k \in 1..Len(backgrounds) :
             backgrounds[k].output = output
             => /\ Count(ops, "submit", SidOf(k)) = 0
                /\ Count(ops, "present", SidOf(k)) = 0

-----------------------------------------------------------------------------
\* C15: when the swapchain texture cannot be acquired, draw returns the
\* error to its caller as a value: the process does not panic, the texture
\* is not asked for again, nothing is submitted and no frame is in flight
\* afterwards.
C15_AcquireErrorIsReturned ==
    [][\A k \in Renderers :
          Handler(ops') = "draw" /\ Count(ops', "acquire_err", SidOf(k)) > 0
          => /\ Last(ops') = Ret(FALSE, SidOf(k))
             /\ ~crashed'
             /\ Count(ops', "acquire_err", SidOf(k)) = 1
             /\ Count(ops', "acquire", SidOf(k)) = 0
             /\ Count(ops', "submit", SidOf(k)) = 0
             /\ OsNext(k).queue_submitted = Os(k).queue_submitted
             /\ OsNext(k).surface_acquired = Os(k).surface_acquired
             /\ OsNext(k).surface_held = Os(k).surface_held
             /\ OsNext(k).submitted_frame = None]_vars

\* draw has just returned an acquisition error on a surface that had drawn
\* and presented a frame before.
C15_Witness ==
    \E k \in Renderers :
        /\ Handler(ops) = "draw"
        /\ Count(ops, "acquire_err", SidOf(k)) = 1
        /\ Last(ops) = Ret(FALSE, SidOf(k))
        /\ Os(k).surface_presented >= 1
        /\ Os(k).submitted_frame = None

-----------------------------------------------------------------------------
\* C16: a swapchain acquisition failure in a timer tick or a configure event
\* does not stop rendering: the process is still running after the handler,
\* so that the next tick or event can call draw on the same surface again.
C16_AcquireErrorDoesNotStopLoop ==
    \A k \in Renderers :
       Handler(ops) \in {"timer", "configure"}
         /\ Count(ops, "acquire_err", SidOf(k)) > 0
       => ~crashed

-----------------------------------------------------------------------------
\* What the next successful draw of os at time t writes to the uniforms.
Uniforms(os, t) ==
    LET d == Draw(os, 0, t, TRUE).os
    IN  [i_global_time |-> d.i_global_time, i_time |-> d.i_time,
         i_resolution |-> d.i_resolution, i_mouse0 |-> d.i_mouse0]

\* C17 (as stated): set_fft(a) followed by set_fft(b) before the next draw
\* leaves that draw writing exactly the uniforms it would write after
\* set_fft(b) alone, the time uniforms included.
C17_LastWriteWins ==
    [][\A k \in Renderers :
          /\ Handler(ops) = "set_fft" /\ Handler(ops') = "set_fft"
          /\ ~IsSome(Os(k).submitted_frame)
          => LET a == ops[1].x
                 b == ops'[1].x
                 before == [Os(k) EXCEPT !.start_time = @ + a]
             IN  Uniforms(OsNext(k), now') = Uniforms(set_fft(before, b), now')]_vars

\* C17 (amended): after set_fft(a) followed by set_fft(b), the next draw
\* writes b to the energy uniform (the last value wins) and the unchanged
\* resolution, but its time uniforms are later by a + b than they would be
\* without the two calls: the shifts of start_time add up.
C17_EnergyLastWriteTimeAccumulates ==
    [][\A k \in Renderers :
          /\ Handler(ops) = "set_fft" /\ Handler(ops') = "set_fft"
          /\ ~IsSome(Os(k).submitted_frame)
          => LET a == ops[1].x
                 b == ops'[1].x
                 before == [Os(k) EXCEPT !.start_time = @ + a]
                 u == Uniforms(OsNext(k), now')
             IN  /\ u.i_mouse0 = b
                 /\ u.i_resolution = Os(k).i_resolution
                 /\ u.i_time = Uniforms(before, now').i_time + a + b
                 /\ u.i_global_time = u.i_time
                 /\ u.i_time = Uniforms(set_fft(before, b), now').i_time + a]_vars

\* set_fft(1) has been followed by set_fft(0) with no frame in flight: the
\* stored energy is 0 and start_time is earlier than the surface's creation.
C17_Witness ==
    \E k \in Renderers :
        /\ Handler(ops) = "set_fft"
        /\ ops[1].x = 0
        /\ Os(k).i_mouse0 = 0
        /\ Os(k).start_time < 0
        /\ ~IsSome(Os(k).submitted_frame)

-----------------------------------------------------------------------------
\* C18: the stored energy is a decaying maximum.  Every draw that encodes a
\* frame multiplies it by 0.8 (so the k-th frame after a push of e sees
\* e * 0.8^k), and a pushed value is combined with the stored one by maximum.
C18_EnergyDecays ==
    [][\A k \in Renderers :
          /\ Handler(ops') = "draw" /\ Count(ops', "stage", SidOf(k)) = 1
              => 5 * OsNext(k).i_mouse0 = 4 * Os(k).i_mouse0
          /\ Handler(ops') = "set_fft"
              => OsNext(k).i_mouse0 = Max(Os(k).i_mouse0, ops'[1].x)]_vars

-----------------------------------------------------------------------------
\* C19: the audio thread and the event loop share only the channel, which
\* runs one way.  A push is always possible (it never waits for room), only
\* appends at most its value and touches no renderer; the loop's receive
\* takes at most one value, the oldest, and is the only step that changes
\* the energy and start time of a renderer; no other step touches the
\* channel.
C19_ChannelIsTheOnlySharedState ==
    /\ [](ENABLED AudioPush)
    /\ [][/\ Len(channel') >= Len(channel) - 1
          /\ Handler(ops') = "push"
                => /\ backgrounds' = backgrounds
                   /\ \/ channel' = Append(channel, ops'[1].x)
                      \/ channel' = channel /\ Len(channel) = MaxChannel
          /\ Handler(ops') = "try_recv"
                => IF channel = <<>>
                   THEN channel' = channel /\ backgrounds' = backgrounds
                   ELSE /\ channel' = Tail(channel)
                        /\ ops'[1].x = Head(channel)
                        /\ \A k \in Renderers :
                              OsNext(k) = set_fft(Os(k), Head(channel))
          /\ Handler(ops') \notin {"push", "try_recv"}
                => /\ channel' = channel
                   /\ \A k \in Renderers :
                         /\ OsNext(k).i_mouse0 = Os(k).i_mouse0
                         /\ OsNext(k).start_time = Os(k).start_time]_vars

\* The loop has just taken the older of two pending values, which the next
\* draw will use; the newer one is still in the channel.
C19_Witness ==
    /\ Handler(ops) = "try_recv"
    /\ ops[1].y = 1
    /\ ops[1].x = 1
    /\ channel = <<0>>
    /\ \E k \in Renderers : Os(k).i_mouse0 = 1 /\ ~IsSome(Os(k).submitted_frame)

-----------------------------------------------------------------------------
-----------------------------------------------------------------------------
\* C21: reset is a stub.  BackgroundLayer::reset and OutputSurface::reset
\* return success and change nothing, whatever the state: the registry, the
\* frames in flight, the uniforms, the start time and the surfaces stay as
\* they were.
C21_ResetChangesNothing ==
    [][Handler(ops') = "reset"
       => /\ backgrounds' = backgrounds
          /\ wl' = wl
          /\ now' = now
          /\ exit' = exit
          /\ crashed' = crashed
          /\ ops' = <<Ev("reset", ops'[1].s, 0, 0), Ret(TRUE, ops'[1].s)>>]_vars

\* OutputSurface::reset has just returned on a surface with a frame in
\* flight, a stored energy and a start time that set_fft has moved.
C21_Witness ==
    \E k \in Renderers :
        /\ Handler(ops) = "reset"
        /\ ops[1].s = SidOf(k)
        /\ IsSome(Os(k).submitted_frame)
        /\ Os(k).i_mouse0 = 1
        /\ Os(k).start_time < 0

-----------------------------------------------------------------------------
\* The output surface and its Renderable after the step.
SurfNext == wgpu'.output_surfaces[1]

RdNext == Unwrap(SurfNext.renderable)

\* C22: frame_start called while the texture of the previous frame is still
\* held returns an error, acquires no texture and leaves the held texture
\* and the view as they were.
C22_FrameStartWhileHeldFails ==
    [][Handler(ops') = "frame_start" /\ IsSome(Rd.surface_texture)
       => /\ ops' = <<Ev("frame_start", Surf.layer, 0, 0), Ret(FALSE, Surf.layer)>>
          /\ ~crashed'
          /\ SurfNext.acquired = Surf.acquired
          /\ RdNext.surface_texture = Rd.surface_texture
          /\ RdNext.texture_view = Rd.texture_view
          /\ wgpu' = wgpu]_vars

\* frame_start has just failed on a Renderable that holds the texture of a
\* frame already rendered, after an earlier frame was finished.
C22_Witness ==
    /\ Handler(ops) = "frame_start"
    /\ Last(ops) = Ret(FALSE, Surf.layer)
    /\ Rd.surface_texture = Some(2)
    /\ Surf.presented = 1
    /\ Surf.submitted = 2

-----------------------------------------------------------------------------
\* C23: a fragment shader whose text contains one of the unsupported
\* uniforms is rejected, by whichever path the source was obtained: a load
\* that succeeds returns a source that contains none of them.
C23_UnsupportedUniformsRejected ==
    IsSome(shader.result) /\ Unwrap(shader.result).ok
    => Unwrap(shader.result).src.uses \cap UNSUPPORTED_UNIFORMS = {}

-----------------------------------------------------------------------------
\* C24: in the render path (timer, frame-done and configure handlers) the
\* device is waited for only inside render, between taking the frame out of
\* the slot and presenting it, at most once per surface and handler, and
\* for the submission index that the slot held (stored there before the
\* handler, or by the draw of the same handler); draw only polls.
C24_OnlyPresentWaits ==
    [][\A j \in 1..Len(ops') :
          ops'[j].op = "wait_for"
          => LET sid == ops'[j].s
                 k == by_id(backgrounds, sid)
             IN  /\ j > 1 /\ ops'[j - 1] = Ev("render", sid, 0, 0)
                 /\ j < Len(ops') /\ ops'[j + 1].op = "present"
                 /\ Count(ops', "wait_for", sid) = 1
                 /\ k # 0
                 /\ IF IsSome(backgrounds[k].renderer)
                        /\ IsSome(Os(k).submitted_frame)
                    THEN ops'[j].x = Unwrap(Os(k).submitted_frame)[2]
                    ELSE \E i \in 1..(j - 1) :
                            ops'[i] = Ev("submit", sid, ops'[j].x, 0)
                 /\ OsNext(k).submitted_frame = None]_vars

\* A frame-done handler blocked for the GPU, for a frame that a timer tick
\* had left in the slot.
C24_Witness ==
    /\ Handler(ops) = "frame"
    /\ \E j \in 1..Len(ops) :
          /\ ops[j].op = "wait_for" /\ ops[j].y = 1
          /\ Count(ops, "submit", ops[j].s) = 0

-----------------------------------------------------------------------------
\* Entry k holds a frame in flight and the compositor can still deliver the
\* frame-done event of its surface within MaxFired.
InFlight(k) ==
    /\ k \in Renderers
    /\ IsSome(Os(k).submitted_frame)

CanDeliver(k) ==
    \/ wl[SidOf(k)].events > 0
    \/ wl[SidOf(k)].fired < MaxFired

\* The process stopped because OutputSurface::new failed in a configure.
NewFailed == crashed /\ Count(ops, "new_err", ops[1].s) > 0

\* With a running timer, compositor, dispatch loop and GPU, a frame in
\* flight is presented unless the process has panicked.
NoStallUnlessPanic ==
    \A k \in 1..Cardinality(Outputs) :
       (InFlight(k) /\ CanDeliver(k)) ~> (~InFlight(k) \/ crashed)

\* C25: rendering does not stall: with a running timer, compositor,
\* dispatch loop and GPU, every frame in flight on a configured surface is
\* eventually presented (unless the creation of a surface failed).
C25_InFlightEventuallyPresented ==
    \A k \in 1..Cardinality(Outputs) :
       (InFlight(k) /\ CanDeliver(k)) ~> (~InFlight(k) \/ NewFailed)

-----------------------------------------------------------------------------
\* C26: the in-flight slot changes only through draw and present.  It goes
\* from empty to held only in a draw that returns Ok after submitting, from
\* held to empty only in a render that presents the stored texture, and
\* never from one frame to another; wait, set_fft, reset and load_shader
\* leave it as it was.
C26_SlotChangesOnlyInDrawAndPresent ==
    [][\A k \in Renderers :
          LET before == Os(k).submitted_frame
              after == OsNext(k).submitted_frame
              sid == SidOf(k)
          IN  /\ before # after
                 => \/ /\ before = None
                       /\ Handler(ops') = "draw"
                       /\ Last(ops') = Ret(TRUE, sid)
                       /\ Count(ops', "submit", sid) = 1
                       /\ after = Some(<<OsNext(k).surface_acquired,
                                         OsNext(k).queue_submitted>>)
                    \/ /\ before # None
                       /\ after = None
                       /\ Handler(ops') = "render"
                       /\ \E j \in 1..Len(ops') :
                             /\ ops'[j].op = "present"
                             /\ ops'[j].x = Unwrap(before)[1]
              /\ Handler(ops') \in {"wait", "set_fft", "reset", "load_shader"}
                 => before = after]_vars

\* wait has just returned after blocking for the GPU, and the frame it
\* waited for is still in the slot.
C26_Witness ==
    \E k \in Renderers :
        /\ Handler(ops) = "wait"
        /\ Len(ops) = 3 /\ ops[2].op = "wait_for" /\ ops[2].y = 1
        /\ IsSome(Os(k).submitted_frame)
        /\ Os(k).device_done >= Unwrap(Os(k).submitted_frame)[2]

-----------------------------------------------------------------------------
\* C27: the resolution uniform is fixed at creation.  A renderer appears
\* with i_resolution equal to the width and height of the configure event
\* that built it; no timer tick, frame-done event or later configure event
\* changes it, whatever size the configure event carries, and neither would
\* a set_fft or a reset applied in any state.
C27_ResolutionFixedAtCreation ==
    [][\A k \in 1..Len(backgrounds') :
          IsSome(backgrounds'[k].renderer)
          => IF k <= Len(backgrounds) /\ IsSome(backgrounds[k].renderer)
             THEN /\ OsNext(k).i_resolution = Os(k).i_resolution
                  /\ \A v \in FftValues :
                        set_fft(Os(k), v).i_resolution = Os(k).i_resolution
                  /\ reset(Os(k)).i_resolution = Os(k).i_resolution
             ELSE /\ Handler(ops') = "configure"
                  /\ ops'[1].s = backgrounds'[k].layer_surface
                  /\ OsNext(k).i_resolution = <<ops'[1].x, ops'[1].y, 0>>]_vars

\* A configure event that carries a size different from the one the
\* renderer was built with has just drawn a frame, after the renderer had
\* presented one.
C27_Witness ==
    \E k \in Renderers :
        /\ Handler(ops) = "configure"
        /\ ops[1].s = SidOf(k)
        /\ Count(ops, "new", SidOf(k)) = 0
        /\ Count(ops, "submit", SidOf(k)) = 1
        /\ Os(k).surface_presented >= 1
        /\ Os(k).i_resolution # <<ops[1].x, ops[1].y, 0>>

-----------------------------------------------------------------------------
\* C28: frame_finish with no texture held returns an error, presents
\* nothing and changes nothing; with a texture held it presents that
\* texture, once, and empties surface_texture (the view, the acquisitions
\* and the submissions are left as they were).
C28_FrameFinishNeedsStartedFrame ==
    [][Handler(ops') = "frame_finish"
       => IF ~IsSome(Rd.surface_texture)
          THEN /\ ops' = <<Ev("frame_finish", Surf.layer, 0, 0),
                           Ret(FALSE, Surf.layer)>>
               /\ wgpu' = wgpu
          ELSE /\ ops' = <<Ev("frame_finish", Surf.layer, 0, 0),
                           Ev("present", Surf.layer, Unwrap(Rd.surface_texture), 1),
                           Ret(TRUE, Surf.layer)>>
               /\ RdNext.surface_texture = None
               /\ RdNext.texture_view = Rd.texture_view
               /\ RdNext.time_instant = Rd.time_instant
               /\ SurfNext.presented = Surf.presented + 1
               /\ SurfNext.acquired = Surf.acquired
               /\ SurfNext.submitted = Surf.submitted]_vars

\* frame_finish has just failed: the second frame was rendered and
\* finished, and frame_finish was called once more.
C28_Witness ==
    /\ Handler(ops) = "frame_finish"
    /\ Last(ops) = Ret(FALSE, Surf.layer)
    /\ Rd.surface_texture = None
    /\ Surf.acquired = 2
    /\ Surf.submitted = 2
    /\ Surf.presented = 2

-----------------------------------------------------------------------------
\* C29: a render call made while no surface texture is held (before the
\* first frame_start, or after frame_finish and before the next
\* frame_start) returns an error and submits nothing.
C29_RenderOnlyWhileFrameStarted ==
    [][Handler(ops') = "render" /\ ~IsSome(Rd.surface_texture)
       => /\ ops' = <<Ev("render", Surf.layer, 0, 0), Ret(FALSE, Surf.layer)>>
          /\ SurfNext.submitted = Surf.submitted]_vars

-----------------------------------------------------------------------------
\* A frame-done or configure event leaves every entry of another surface,
\* and that surface, as they were and sends no request for it.
OthersUntouched ==
    Handler(ops') \in {"frame", "configure"}
    => \A j \in 1..Len(backgrounds) :
          SidOf(j) # ops'[1].s
          => /\ backgrounds'[j] = backgrounds[j]
             /\ wl'[SidOf(j)] = wl[SidOf(j)]
             /\ \A i \in 1..Len(ops') : ops'[i].s # SidOf(j)

\* BackgroundLayer::draw and BackgroundLayer::set_fft leave every entry
\* without a renderer as it was, and no request is sent for it.
NoRendererSkipped ==
    \A j \in 1..Len(backgrounds) :
       ~IsSome(backgrounds[j].renderer)
       => /\ Handler(ops') = "timer"
             => /\ backgrounds'[j] = backgrounds[j]
                /\ \A i \in 1..Len(ops') : ops'[i].s # SidOf(j)
          /\ \A v \in FftValues :
                BackgroundLayer_set_fft(backgrounds, v)[j] = backgrounds[j]

\* BackgroundLayer::set_fft stores the value in every entry with a renderer.
SetFftActsOnAll ==
    \A v \in FftValues :
       LET bs == BackgroundLayer_set_fft(backgrounds, v)
       IN  /\ Len(bs) = Len(backgrounds)
           /\ \A j \in Renderers :
                 /\ Unwrap(bs[j].renderer).i_mouse0 = v
                 /\ Unwrap(bs[j].renderer).start_time = Os(j).start_time - v
                 /\ Unwrap(bs[j].renderer).submitted_frame = Os(j).submitted_frame

\* Isolation of the surfaces, with BackgroundLayer::draw calling draw once
\* on every entry with a renderer in every timer tick that returns.
IsolatedUnlessPanic ==
    [][/\ OthersUntouched
       /\ NoRendererSkipped
       /\ SetFftActsOnAll
       /\ Handler(ops') = "timer" /\ ~crashed'
          => \A j \in Renderers : Count(ops', "draw", SidOf(j)) = 1]_vars

\* C30: surfaces are isolated from each other: a frame-done or configure
\* event of one surface leaves every other entry unchanged;
\* BackgroundLayer::draw and BackgroundLayer::set_fft act on every entry
\* that has a renderer and skip every entry that has none.
C30_SurfacesIsolated ==
    [][/\ OthersUntouched
       /\ NoRendererSkipped
       /\ SetFftActsOnAll
       /\ Handler(ops') = "timer"
          => \A j \in Renderers : Count(ops', "draw", SidOf(j)) = 1]_vars

-----------------------------------------------------------------------------
\* C31: the first configure event of a registered surface, once handled,
\* leaves the entry with a renderer that has drawn exactly one frame and
\* presented it, an empty in-flight slot and exactly one frame callback
\* outstanding (registered with the compositor by the commit); when the
\* handler panics instead, the entry still has no renderer.  A configure
\* event for a surface that matches no entry changes nothing.
C31_FirstConfigureState ==
    [][Handler(ops') = "configure" =>
       LET sid == ops'[1].s
           k == by_id(backgrounds, sid)
           unknown == Len(wl) + 1
       IN  /\ k # 0
           /\ ~IsSome(backgrounds[k].renderer) /\ ~crashed'
              => /\ IsSome(backgrounds'[k].renderer)
                 /\ OsNext(k).surface_acquired = 1
                 /\ OsNext(k).queue_submitted = 1
                 /\ OsNext(k).surface_presented = 1
                 /\ OsNext(k).surface_held = 0
                 /\ OsNext(k).submitted_frame = None
                 /\ Count(ops', "submit", sid) = 1
                 /\ Count(ops', "present", sid) = 1
                 /\ Outstanding(wl[sid]) = 0
                 /\ wl'[sid].callbacks = 1 /\ wl'[sid].pending = 0
           /\ ~IsSome(backgrounds[k].renderer) /\ crashed'
              => backgrounds' = backgrounds
           /\ by_id(backgrounds, unknown) = 0
           /\ \A size \in Sizes, created \in BOOLEAN, acquired \in BOOLEAN :
                 configure(backgrounds, wl, unknown, size, now, created, acquired)
                   = [bs |-> backgrounds, wl |-> wl, ok |-> TRUE, ev |-> <<>>]]_vars

\* The first configure event of the second surface has just been handled
\* while the first surface holds a frame in flight.
C31_Witness ==
    /\ Handler(ops) = "configure"
    /\ ~crashed
    /\ Len(backgrounds) = 2
    /\ Count(ops, "new", 2) = 1
    /\ IsSome(backgrounds[2].renderer)
    /\ Os(2).surface_presented = 1
    /\ Outstanding(wl[2]) = 1
    /\ IsSome(backgrounds[1].renderer)
    /\ IsSome(Os(1).submitted_frame)

-----------------------------------------------------------------------------
\* C32: the elapsed time written to the time uniforms never decreases from
\* one frame-encoding draw to the next, however set_fft calls are
\* interleaved: start_time changes only in set_fft, which moves it earlier
\* by its (non-negative) value, so that the shifts add up; a draw that
\* encodes a frame stages the time since start_time, which is at least the
\* time any earlier draw wrote.
C32_TimeNeverDecreases ==
    [][\A k \in Renderers :
          LET sid == SidOf(k)
          IN  /\ OsNext(k).start_time <= Os(k).start_time
              /\ OsNext(k).start_time # Os(k).start_time
                    => Handler(ops') = "set_fft"
              /\ Handler(ops') = "set_fft" /\ ops'[1].s = sid
                    => /\ ops'[1].x >= 0
                       /\ OsNext(k).start_time = Os(k).start_time - ops'[1].x
              /\ OsNext(k).i_time >= Os(k).i_time
              /\ OsNext(k).i_global_time = OsNext(k).i_time
              /\ \A j \in 1..Len(ops') :
                    ops'[j].op = "stage" /\ ops'[j].s = sid
                    => /\ ops'[j].x = now' - Os(k).start_time
                       /\ ops'[j].x >= Os(k).i_time
                       /\ OsNext(k).i_time = ops'[j].x]_vars

\* The second frame has just been encoded, after two set_fft(1) calls that
\* followed the first frame: its time is the clock's time plus both shifts.
C32_Witness ==
    \E k \in Renderers :
        /\ Handler(ops) = "draw"
        /\ Count(ops, "stage", SidOf(k)) = 1
        /\ Os(k).surface_acquired = 2
        /\ Os(k).start_time = 0 - 2
        /\ Os(k).i_time = now + 2
        /\ now >= 1

-----------------------------------------------------------------------------
\* C33: no handler of BackgroundLayer or of Wgpu sets the exit flag: exit is
\* false in every reachable state, main never leaves its loop for the drops,
\* and a closed event panics the process instead of asking for an exit.
C33_ExitNeverSet ==
    /\ exit = FALSE
    /\ wgpu.pc \in {"none", "dispatch", "check"}
    /\ wgpu.dropped = <<>>
    /\ Handler(ops) = "closed" => crashed

\* Wgpu has presented a frame on each of two output surfaces and main has
\* tested the exit flag and gone back to dispatching; a closed event has
\* then stopped the process.
C33_Witness ==
    /\ Handler(ops) = "closed"
    /\ crashed
    /\ Len(wgpu.output_surfaces) = 2
    /\ \A i \in 1..2 : wgpu.output_surfaces[i].presented >= 1

-----------------------------------------------------------------------------
\* C34: Wgpu presents frames only in its configure handler.  A texture is
\* acquired, a pass submitted or a frame presented on an output surface
\* only by a configure event of that surface's layer; such an event, once
\* handled, has started, rendered (onto the texture it holds) and finished
\* exactly one frame and stored a renderable that holds no texture; when
\* it panics instead nothing is stored.  A frame-done event sends no
\* request and changes nothing.
C34_WgpuPresentsOnlyInConfigure ==
    [][/\ Len(wgpu'.output_surfaces) = Len(wgpu.output_surfaces)
       /\ Handler(ops') = "frame" => wgpu' = wgpu /\ Len(ops') = 1
       /\ Handler(ops') = "configure" /\ crashed' => wgpu' = wgpu
       /\ \A i \in 1..Len(wgpu.output_surfaces) :
             LET s == wgpu.output_surfaces[i]
                 n == wgpu'.output_surfaces[i]
                 mine == Handler(ops') = "configure" /\ ops'[1].s = s.layer
             IN  /\ ~mine => n = s
                 /\ mine /\ ~crashed'
                    => /\ n.acquired = s.acquired + 1
                       /\ n.submitted = s.submitted + 1
                       /\ n.presented = s.presented + 1
                       /\ Count(ops', "frame_start", s.layer) = 1
                       /\ Count(ops', "render", s.layer) = 1
                       /\ Count(ops', "frame_finish", s.layer) = 1
                       /\ \E j \in 1..Len(ops') :
                             ops'[j] = Ev("submit", s.layer, n.acquired, 1)
                       /\ \E j \in 1..Len(ops') :
                             ops'[j] = Ev("present", s.layer, n.acquired, 1)
                       /\ IsSome(n.renderable)
                       /\ Unwrap(n.renderable).surface_texture = None
                       /\ Unwrap(n.renderable).time_instant = now]_vars

\* A frame-done event has just been handled by Wgpu after one of its two
\* output surfaces was configured twice and the other not at all.
C34_Witness ==
    /\ Handler(ops) = "frame"
    /\ wgpu.pc = "dispatch"
    /\ Len(wgpu.output_surfaces) = 2
    /\ \E i \in 1..2 :
          /\ wgpu.output_surfaces[i].presented = 2
          /\ Unwrap(wgpu.output_surfaces[i].renderable).surface_texture = None
    /\ \E i \in 1..2 : wgpu.output_surfaces[i].renderable = None

-----------------------------------------------------------------------------
\* The loaded ArgValues and the result of the load.
Av == Unwrap(shader.av)

Loaded == Unwrap(shader.result)

\* C35: load_fragment_shader selects its source by fixed precedence: an
\* example name, if given, decides alone (an unknown one is an error,
\* whatever the path); otherwise the file at the shader path, if given;
\* otherwise the built-in default (the seascape example).  The result is an
\* error exactly when the example is unknown, the file cannot be read, or
\* the selected source contains an unsupported uniform name; otherwise it
\* is the selected source between prefix and suffix.  The shader id plays
\* no part.
C35_LoadPrecedence ==
    shader.call = "load_fragment_shader" =>
       LET byExample == IsSome(Av.examplename)
           known == Unwrap(Av.examplename) \in {"seascape", "elemental-ring"}
           byPath == ~byExample /\ IsSome(Av.shaderpath)
           unreadable == byPath /\ shader.file = None
           origin == IF byExample THEN "example"
                     ELSE IF byPath THEN "file" ELSE "default"
           uses == IF byExample
                   THEN IF Unwrap(Av.examplename) = "seascape"
                        THEN shader.seascape ELSE shader.ring
                   ELSE IF byPath THEN Unwrap(shader.file)
                   ELSE shader.seascape
           selected == ~(byExample /\ ~known) /\ ~unreadable
       IN  /\ byExample /\ ~known => Loaded.err = "no such example"
           /\ Loaded.ok <=> selected /\ uses \cap UNSUPPORTED_UNIFORMS = {}
           /\ selected /\ ~Loaded.ok => Loaded.err = "unsupported uniforms"
           /\ Loaded.ok
              => Loaded.src = [origin |-> origin, uses |-> uses, formatted |-> TRUE]
           /\ Loaded = load_fragment_shader([Av EXCEPT !.getid = None], shader)

\* The seascape example was loaded although the ArgValues also name a
\* readable shader file, whose source would have been rejected, and a
\* shader id.
C35_Witness ==
    /\ shader.call = "load_fragment_shader"
    /\ Av.examplename = Some("seascape")
    /\ IsSome(Av.shaderpath)
    /\ IsSome(Av.getid)
    /\ shader.file = Some({"iChannel0"})
    /\ shader.ring = {"iChannel0"}
    /\ Loaded.ok
    /\ Loaded.src.origin = "example"

====
